---- MODULE Spec2Model ----
(***************************************************************************)
(* A model of the Coral Gables property-data scripts:                      *)
(*   CGProperties_Splitter.py  (ImprovedCGPropertiesSplitter, main)        *)
(*   create_rag_data.py        (CoralGablesRAGProcessor, process_all)      *)
(*   simple_data_analysis.py   (SimpleCoralGablesAnalyzer, main)            *)
(* One process runs one script.  Python values are modelled with their     *)
(* type tag, strings as sequences of one-character strings, dicts as       *)
(* sequences of key/value entries in insertion order, and the filesystem   *)
(* as a function from paths to file contents.                              *)
(***************************************************************************)
EXTENDS Integers, Sequences, FiniteSets, TLC

VARIABLES
    script,      \* which entry point this process runs
    input,       \* what is at the script's input path
    pc,          \* position in the entry point (main / process_all)
    features,    \* ImprovedCGPropertiesSplitter.features, SimpleCoralGablesAnalyzer.features
    loaded,      \* the features as load_data produced them
    output_dir,  \* ImprovedCGPropertiesSplitter.output_dir
    properties,  \* CoralGablesRAGProcessor.properties
    property_data, \* SimpleCoralGablesAnalyzer.property_data
    fs,          \* the filesystem: path -> content
    log,         \* the files written by the last operation, in write order
    parts,       \* the dicts / chunk lists the last operation built, in order
    last,        \* the last operation, its arguments and how it ended
    exit_code,   \* -1 while running, else the process's exit status
    calls        \* calls a caller has made of methods that change the object

vars == <<script, input, pc, features, loaded, output_dir, properties, property_data, fs, log, parts,
          last, exit_code, calls>>

(***************************************************************************)
(* Bounds of the model.                                                    *)
(***************************************************************************)
MaxRecords == 3
MaxChunkSize == 3
MaxRagRecords == 4
MaxFailAt == 1

(***************************************************************************)
(* Python values: str, int, None.                                          *)
(***************************************************************************)
StrV(chars) == [t |-> "str", s |-> chars, n |-> 0]
IntV(k) == [t |-> "int", s |-> <<>>, n |-> k]
NoneV == [t |-> "none", s |-> <<>>, n |-> 0]

\* Python's == on these values: a str never equals an int.
PyEq(a, b) ==
    /\ a.t = b.t
    /\ (a.t = "str" => a.s = b.s)
    /\ (a.t = "int" => a.n = b.n)

Digit(d) == <<"0", "1", "2", "3", "4", "5", "6", "7", "8", "9">>[d + 1]

RECURSIVE NatStr(_)
NatStr(k) == IF k < 10 THEN <<Digit(k)>> ELSE NatStr(k \div 10) \o <<Digit(k % 10)>>

\* str(value)
PyStr(v) ==
    CASE v.t = "str" -> v.s
      [] v.t = "int" -> IF v.n < 0 THEN <<"-">> \o NatStr(-v.n) ELSE NatStr(v.n)
      [] OTHER -> <<"N", "o", "n", "e">>

\* f"{k:03d}" for k >= 0
Pad3(k) ==
    LET d == NatStr(k)
    IN  IF Len(d) >= 3 THEN d
        ELSE IF Len(d) = 2 THEN <<"0">> \o d ELSE <<"0", "0">> \o d

\* s.replace(old, new) for a one-character old
Replace(s, old, new) == [i \in 1..Len(s) |-> IF s[i] = old THEN new ELSE s[i]]

\* s[:limit]
Truncate(s, limit) == IF Len(s) <= limit THEN s ELSE SubSeq(s, 1, limit)

\* str(key).replace(' ', '_').replace('/', '_').replace('\\', '_')[:limit]
Sanitize(key, limit) ==
    Truncate(Replace(Replace(Replace(PyStr(key), " ", "_"), "/", "_"), "\\", "_"), limit)

RECURSIVE Rep(_, _)
Rep(c, k) == IF k = 0 THEN <<>> ELSE <<c>> \o Rep(c, k - 1)

(***************************************************************************)
(* Property keys the splitter reads.                                       *)
(***************************************************************************)
F_OWNER == "AddressPoints.TRUE_OWNER"
F_ZONING == "AddressPoints.PRIMARY_ZO"
F_ROUTE == "AddressPoints_AddSpatialJoin_10.Route"
F_MUNICIPALITY == "AddressPoints.MUNICIPALI"
F_NEIGHBORHOOD == "AddressPoints.NEIGHBORHO"
F_YEAR == "AddressPoints.YEAR_BUILT"
F_ADDRESS == "AddressPoints.TRUE_SITE_"

\* The default of get_property_value, and the defaults its callers pass.
Unknown == StrV(<<"U", "n", "k", "n", "o", "w", "n">>)
Empty == StrV(<<>>)

\* feature.get('properties', {}): a feature is a dict that may lack the key.
PropertiesOf(feature) ==
    IF "properties" \in DOMAIN feature THEN feature.properties ELSE <<>>

\* dict.get(key, default) on a property bag
DictGet(bag, key, default) == IF key \in DOMAIN bag THEN bag[key] ELSE default

\* (faulty variant: properties.get(key), the caller's default dropped)
get_property_value_NoDefault(feature, key, default) == DictGet(PropertiesOf(feature), key, NoneV)

get_property_value(feature, key, default) == DictGet(PropertiesOf(feature), key, default)

\* "properties": null in the document: feature.get('properties', {}) is None,
\* and None.get raises AttributeError.
IsNullBag(feature) == "properties" \in DOMAIN feature /\ feature.properties = NoneV

\* the position of the first feature with a null property bag, 0 if none
FirstNullBag(feats) ==
    IF \E i \in 1..Len(feats) : IsNullBag(feats[i])
    THEN CHOOSE i \in 1..Len(feats) :
             IsNullBag(feats[i]) /\ \A i2 \in 1..(i - 1) : ~IsNullBag(feats[i2])
    ELSE 0

(***************************************************************************)
(* A Python dict from grouping keys to lists of features, as the sequence  *)
(* of its entries in insertion order.                                      *)
(***************************************************************************)
HasKey(d, k) == \E j \in 1..Len(d) : PyEq(d[j].k, k)
IndexOf(d, k) == CHOOSE j \in 1..Len(d) : PyEq(d[j].k, k)

\* if key not in d: d[key] = []
\* d[key].append(feature)
\* Faulty variants of this step: dropping, prepending, and new-key-first.
DictAppendDropping(d, k, feature) ==
    IF HasKey(d, k)
    THEN [d EXCEPT ![IndexOf(d, k)].v = <<feature>>]
    ELSE Append(d, [k |-> k, v |-> <<feature>>])

DictAppendPrepending(d, k, feature) ==
    IF HasKey(d, k)
    THEN [d EXCEPT ![IndexOf(d, k)].v = <<feature>> \o @]
    ELSE Append(d, [k |-> k, v |-> <<feature>>])

DictAppendNewFirst(d, k, feature) ==
    IF HasKey(d, k)
    THEN [d EXCEPT ![IndexOf(d, k)].v = Append(@, feature)]
    ELSE <<[k |-> k, v |-> <<feature>>]>> \o d

DictAppend(d, k, feature) ==
    IF HasKey(d, k)
    THEN [d EXCEPT ![IndexOf(d, k)].v = Append(@, feature)]
    ELSE Append(d, [k |-> k, v |-> <<feature>>])

\* for feature in self.features: ... (the grouping loop of every split_by_*)
RECURSIVE GroupLoop(_, _, _, _)
GroupLoop(feats, field, i, d) ==
    IF i > Len(feats) THEN d
    ELSE GroupLoop(feats, field, i + 1,
                   DictAppend(d, get_property_value(feats[i], field, Unknown), feats[i]))

GroupBy(feats, field) == GroupLoop(feats, field, 1, <<>>)

(***************************************************************************)
(* Python's ordering of strings (by code point) and of ints.               *)
(***************************************************************************)
AsciiTable ==
    <<
       " ", "!", "\"", "#", "$", "%", "&", "'", "(", ")", "*", "+", ",", "-", ".", "/",
       "0", "1", "2", "3", "4", "5", "6", "7", "8", "9", ":", ";", "<", "=", ">", "?",
       "@", "A", "B", "C", "D", "E", "F", "G", "H", "I", "J", "K", "L", "M", "N", "O",
       "P", "Q", "R", "S", "T", "U", "V", "W", "X", "Y", "Z", "[", "\\", "]", "^", "_",
       "(96)", "a", "b", "c", "d", "e", "f", "g", "h", "i", "j", "k", "l", "m", "n", "o",
       "p", "q", "r", "s", "t", "u", "v", "w", "x", "y", "z", "{", "|", "}", "~"
    >>

\* ord(c) for a printable ASCII character (the entry at 96 is a placeholder
\* that keeps the later code points in place)
Ord(c) == 31 + (CHOOSE i \in 1..Len(AsciiTable) : AsciiTable[i] = c)

RECURSIVE StrLess(_, _)
StrLess(a, b) ==
    IF b = <<>> THEN FALSE
    ELSE IF a = <<>> THEN TRUE
    ELSE IF a[1] = b[1] THEN StrLess(Tail(a), Tail(b))
    ELSE Ord(a[1]) < Ord(b[1])

\* a < b for two values of the same type (Python raises TypeError otherwise)
PyLess(a, b) ==
    CASE a.t = "str" /\ b.t = "str" -> StrLess(a.s, b.s)
      [] a.t = "int" /\ b.t = "int" -> a.n < b.n

(***************************************************************************)
(* Files.  A path is a directory (a sequence of components) and a name (a  *)
(* sequence of characters); a content is what one open(..., 'w') block     *)
(* wrote.                                                                  *)
(***************************************************************************)
Path(dir, name) == [dir |-> dir, name |-> name]

NoSummary == <<>>
JsonContent(feats) ==
    [kind |-> "json", features |-> feats, header |-> <<>>, rows |-> <<>>, summary |-> NoSummary]
CsvContent(header, rows, feats) ==
    [kind |-> "csv", features |-> feats, header |-> header, rows |-> rows, summary |-> NoSummary]
TextContent(kind, feats) ==
    [kind |-> kind, features |-> feats, header |-> <<>>, rows |-> <<>>, summary |-> NoSummary]
SummaryContent(summary) ==
    [kind |-> "summary", features |-> <<>>, header |-> <<>>, rows |-> <<>>, summary |-> summary]
\* what is left of a file whose writes failed after open(path, 'w') truncated it
PartialContent ==
    [kind |-> "partial", features |-> <<>>, header |-> <<>>, rows |-> <<>>, summary |-> NoSummary]

\* the filename attribute of an OSError that carries none
NoFile == [dir |-> <<>>, name |-> <<>>]

\* The object's state while a method runs: the filesystem, the writes and
\* dicts of this call so far, self.output_dir, the exception that has
\* escaped (if any), and how many more open() calls the disk will serve
\* (NoFail: all of them).
NoFail == -1

\* an exception escapes the method, unless one already has
Raise(w, exc) == IF w.raised # "none" THEN w ELSE [w EXCEPT !.raised = exc]

\* a loop that reads the properties of every feature before anything is
\* written: it raises at the first null property bag
ReadAll(w) == IF FirstNullBag(w.features) # 0 THEN Raise(w, "AttributeError") ELSE w

\* The I/O error of a with open(path, 'w') block.  open() itself fails
\* (permission denied, no such directory): nothing changes on disk and the
\* OSError carries the path.  Or the writes fail (disk full): the file has
\* been created or truncated, and the OSError carries no path.
WriteFails(w, path) ==
    IF w.fail = "open"
    THEN [w EXCEPT !.raised = "OSError", !.error_file = path, !.at = path]
    ELSE [w EXCEPT !.raised = "OSError", !.at = path,
                   !.fs = [p \in DOMAIN w.fs \cup {path} |->
                              IF p = path THEN PartialContent ELSE w.fs[p]]]

\* open(path, 'w') followed by the block's writes: the file is created or
\* truncated, then holds exactly this content.
\* (faulty variant: the file is opened for appending)
WriteFileAppending(w, path, content) ==
    IF w.raised # "none" THEN w
    ELSE IF w.budget = 0 THEN WriteFails(w, path)
    ELSE LET old == IF path \in DOMAIN w.fs THEN w.fs[path] ELSE JsonContent(<<>>)
             new == [content EXCEPT !.features = old.features \o content.features,
                                    !.rows = old.rows \o content.rows]
         IN [w EXCEPT !.fs = [p \in DOMAIN w.fs \cup {path} |->
                                  IF p = path THEN new ELSE w.fs[p]],
                      !.log = Append(w.log, [path |-> path, content |-> content]),
                      !.budget = IF w.budget = NoFail THEN NoFail ELSE w.budget - 1]

WriteFile(w, path, content) ==
    IF w.raised # "none" THEN w
    ELSE IF w.budget = 0 THEN WriteFails(w, path)
    ELSE [w EXCEPT !.fs = [p \in DOMAIN w.fs \cup {path} |->
                               IF p = path THEN content ELSE w.fs[p]],
                   !.log = Append(w.log, [path |-> path, content |-> content]),
                   !.budget = IF w.budget = NoFail THEN NoFail ELSE w.budget - 1]

\* A dict (or chunk list) the running method has finished building.
Built(w, name, d) ==
    IF w.raised # "none" THEN w
    ELSE [w EXCEPT !.parts = Append(w.parts, [name |-> name, dict |-> d])]

(***************************************************************************)
(* The JSON splits.                                                        *)
(***************************************************************************)
OwnerMaxLen == 50
ZoningMaxLen == 50
RouteMaxLen == 50
MunicipalityMaxLen == 50
NeighborhoodMaxLen == 50
YearMaxLen == 20
AddressMaxLen == 30
CsvMaxLen == 50

P_owner == <<"o", "w", "n", "e", "r">>
P_zoning == <<"z", "o", "n", "i", "n", "g">>
P_route == <<"r", "o", "u", "t", "e">>
P_municipality == <<"m", "u", "n", "i", "c", "i", "p", "a", "l", "i", "t", "y">>
P_neighborhood == <<"n", "e", "i", "g", "h", "b", "o", "r", "h", "o", "o", "d">>
P_year_built == <<"y", "e", "a", "r", "_", "b", "u", "i", "l", "t">>
P_chunk == <<"c", "h", "u", "n", "k">>
P_address_range == <<"a", "d", "d", "r", "e", "s", "s", "_", "r", "a", "n", "g", "e">>
E_json == <<"j", "s", "o", "n">>
E_csv == <<"c", "s", "v">>

\* f"{prefix}_{clean}.{ext}"
FileName(prefix, clean, ext) == prefix \o <<"_">> \o clean \o <<".">> \o ext

\* for key, features in d.items(): clean, filename, json.dump
RECURSIVE WriteGroups(_, _, _, _, _)
WriteGroups(w, d, j, prefix, limit) ==
    IF j > Len(d) THEN w
    ELSE WriteGroups(
             WriteFile(w, Path(w.output_dir, FileName(prefix, Sanitize(d[j].k, limit), E_json)),
                       JsonContent(d[j].v)),
             d, j + 1, prefix, limit)

split_by_owner(w) ==
    LET owners == GroupBy(w.features, F_OWNER)
    IN  WriteGroups(Built(ReadAll(w), "owner", owners), owners, 1, P_owner, OwnerMaxLen)

split_by_zoning(w) ==
    LET zoning_types == GroupBy(w.features, F_ZONING)
    IN  WriteGroups(Built(ReadAll(w), "zoning", zoning_types), zoning_types, 1, P_zoning, ZoningMaxLen)

split_by_trash_route(w) ==
    LET routes == GroupBy(w.features, F_ROUTE)
    IN  WriteGroups(Built(ReadAll(w), "route", routes), routes, 1, P_route, RouteMaxLen)

split_by_municipality(w) ==
    LET municipalities == GroupBy(w.features, F_MUNICIPALITY)
    IN  WriteGroups(Built(ReadAll(w), "municipality", municipalities), municipalities, 1,
                    P_municipality, MunicipalityMaxLen)

split_by_neighborhood(w) ==
    LET neighborhoods == GroupBy(w.features, F_NEIGHBORHOOD)
    IN  WriteGroups(Built(ReadAll(w), "neighborhood", neighborhoods), neighborhoods, 1,
                    P_neighborhood, NeighborhoodMaxLen)

split_by_year_built(w) ==
    LET years == GroupBy(w.features, F_YEAR)
    IN  WriteGroups(Built(ReadAll(w), "year_built", years), years, 1, P_year_built, YearMaxLen)

(***************************************************************************)
(* Positional chunks and address ranges.                                   *)
(***************************************************************************)
Min(a, b) == IF a <= b THEN a ELSE b

\* s[a:b] for 0 <= a <= b
Slice(s, a, b) == SubSeq(s, a + 1, Min(b, Len(s)))

\* (faulty variant: the slice stops one element early)
ChunkAtShort(feats, i, size) == Slice(feats, i, i + size - 1)

\* self.features[i:i + chunk_size]
ChunkAt(feats, i, size) == Slice(feats, i, i + size)

\* the chunks of for i in range(0, len(feats), size), as a list keyed by
\* chunk number i // size + 1
RECURSIVE ChunkList(_, _, _)
ChunkList(feats, i, size) ==
    IF i >= Len(feats) THEN <<>>
    ELSE <<[k |-> IntV(i \div size + 1), v |-> ChunkAt(feats, i, size)]>>
         \o ChunkList(feats, i + size, size)

RECURSIVE WriteChunks(_, _, _)
WriteChunks(w, chunks, j) ==
    IF j > Len(chunks) THEN w
    ELSE WriteChunks(
             WriteFile(w, Path(w.output_dir, FileName(P_chunk, Pad3(chunks[j].k.n), E_json)),
                       JsonContent(chunks[j].v)),
             chunks, j + 1)

split_by_chunk_size(w, chunk_size) ==
    IF w.raised # "none" THEN w
    ELSE IF chunk_size = 0 THEN [w EXCEPT !.raised = "ValueError"]
    ELSE IF chunk_size < 0 THEN w
    ELSE LET chunks == ChunkList(w.features, 0, chunk_size)
         IN  WriteChunks(Built(w, "chunks", chunks), chunks, 1)

\* key=lambda x: self.get_property_value(x, 'AddressPoints.TRUE_SITE_', '')
SortKey(feature) == get_property_value(feature, F_ADDRESS, Empty)

\* '<' is defined between two str and between two int keys; sorted() raises
\* TypeError when it has to compare any other pair.
Comparable(a, b) == a.t = b.t /\ a.t # "none"

Sortable(feats) ==
    \A i, j \in 1..Len(feats) : i # j => Comparable(SortKey(feats[i]), SortKey(feats[j]))

\* sorted() is stable: an element goes after every element whose key is not
\* greater than its own.
RECURSIVE InsertPos(_, _, _)
InsertPos(sorted, x, j) ==
    IF j > Len(sorted) THEN j
    ELSE IF PyLess(SortKey(x), SortKey(sorted[j])) THEN j
    ELSE InsertPos(sorted, x, j + 1)

InsertAt(s, j, x) == SubSeq(s, 1, j - 1) \o <<x>> \o SubSeq(s, j, Len(s))

\* (faulty variants: equal keys land in reverse order; no sorting at all)
RECURSIVE SortedUnstable(_, _, _)
SortedUnstable(feats, i, acc) ==
    IF i > Len(feats) THEN acc
    ELSE LET x == feats[i]
             before == {j \in 1..Len(acc) : PyLess(SortKey(acc[j]), SortKey(x))}
         IN  SortedUnstable(feats, i + 1, InsertAt(acc, Cardinality(before) + 1, x))

RECURSIVE Sorted(_, _, _)
Sorted(feats, i, acc) ==
    IF i > Len(feats) THEN acc
    ELSE Sorted(feats, i + 1, InsertAt(acc, InsertPos(acc, feats[i], 1), feats[i]))

\* f"address_range_{file_num:03d}_{start_clean}_to_{end_clean}.json"
AddressFileName(file_num, start_clean, end_clean) ==
    P_address_range \o <<"_">> \o Pad3(file_num) \o <<"_">> \o start_clean
        \o <<"_", "t", "o", "_">> \o end_clean \o <<".">> \o E_json

RECURSIVE WriteRanges(_, _, _)
WriteRanges(w, chunks, j) ==
    IF j > Len(chunks) THEN w
    ELSE LET chunk == chunks[j].v
             start_addr == get_property_value(chunk[1], F_ADDRESS, Unknown)
             end_addr == get_property_value(chunk[Len(chunk)], F_ADDRESS, Unknown)
             name == AddressFileName(chunks[j].k.n, Sanitize(start_addr, AddressMaxLen),
                                     Sanitize(end_addr, AddressMaxLen))
         IN  WriteRanges(WriteFile(w, Path(w.output_dir, name), JsonContent(chunk)),
                         chunks, j + 1)

\* (faulty variant: self.features.sort(...) in place of sorted(self.features))
split_by_address_range_InPlace(w, records_per_file) ==
    IF w.raised # "none" THEN w
    ELSE IF FirstNullBag(w.features) # 0 THEN Raise(w, "AttributeError")
    ELSE IF ~Sortable(w.features) THEN Raise(w, "TypeError")
    ELSE LET sorted_features == Sorted(w.features, 1, <<>>)
             w1 == [w EXCEPT !.features = sorted_features]
         IN  IF records_per_file = 0 THEN [w1 EXCEPT !.raised = "ValueError"]
             ELSE IF records_per_file < 0 THEN w1
             ELSE LET chunks == ChunkList(sorted_features, 0, records_per_file)
                  IN  WriteRanges(Built(w1, "address", chunks), chunks, 1)

split_by_address_range(w, records_per_file) ==
    IF w.raised # "none" THEN w
    ELSE IF FirstNullBag(w.features) # 0 THEN Raise(w, "AttributeError")
    ELSE IF ~Sortable(w.features) THEN Raise(w, "TypeError")
    ELSE LET sorted_features == Sorted(w.features, 1, <<>>)
         IN  IF records_per_file = 0 THEN [w EXCEPT !.raised = "ValueError"]
             ELSE IF records_per_file < 0 THEN w
             ELSE LET chunks == ChunkList(sorted_features, 0, records_per_file)
                  IN  WriteRanges(Built(w, "address", chunks), chunks, 1)

(***************************************************************************)
(* The CSV exports.                                                        *)
(***************************************************************************)
\* The property keys of the model in the order sorted() gives them
\* ('.' sorts before '_', upper case before lower case).
FieldOrder ==
    <<F_MUNICIPALITY, F_NEIGHBORHOOD, F_ZONING, F_OWNER, F_ADDRESS, F_YEAR, F_ROUTE>>

\* (faulty variant: the columns of the whole data model, whatever the group)
FieldNamesOfAll(feats) == FieldOrder

\* sorted(list(all_fields)), all_fields the union of the features' keys
FieldNames(feats) ==
    LET all_fields == UNION {DOMAIN PropertiesOf(feats[i]) : i \in 1..Len(feats)}
    IN  SelectSeq(FieldOrder, LAMBDA f : f \in all_fields)

\* what csv.writer writes for a value: '' for None, else str(value)
CsvCell(v) == IF v.t = "none" THEN <<>> ELSE PyStr(v)

\* (faulty variant: a missing field is filled with the default "Unknown")
CsvRowUnknown(feature, fieldnames) ==
    [c \in 1..Len(fieldnames) |-> CsvCell(DictGet(PropertiesOf(feature), fieldnames[c], Unknown))]

\* row = {field: properties.get(field, '') for field in fieldnames}
CsvRow(feature, fieldnames) ==
    [c \in 1..Len(fieldnames) |-> CsvCell(DictGet(PropertiesOf(feature), fieldnames[c], Empty))]

CsvOf(feats) ==
    LET fieldnames == FieldNames(feats)
    IN  CsvContent(fieldnames, [r \in 1..Len(feats) |-> CsvRow(feats[r], fieldnames)], feats)

RECURSIVE export_split_to_csv(_, _, _, _)
export_split_to_csv(w, data_dict, j, filename_prefix) ==
    IF j > Len(data_dict) THEN w
    ELSE IF data_dict[j].v = <<>> THEN export_split_to_csv(w, data_dict, j + 1, filename_prefix)
    ELSE export_split_to_csv(
             WriteFile(w, Path(w.output_dir,
                               FileName(filename_prefix, Sanitize(data_dict[j].k, CsvMaxLen), E_csv)),
                       CsvOf(data_dict[j].v)),
             data_dict, j + 1, filename_prefix)

export_to_csv(w, filename) ==
    IF w.features = <<>> THEN w
    ELSE WriteFile(ReadAll(w), Path(w.output_dir, filename), CsvOf(w.features))

N_all_properties == <<"a", "l", "l", "_", "p", "r", "o", "p", "e", "r", "t", "i", "e", "s", ".", "c", "s", "v">>

\* self.output_dir = dir, unless an exception is already on its way out
SetOutputDir(w, dir) == IF w.raised # "none" THEN w ELSE [w EXCEPT !.output_dir = dir]

CsvSplit(w, name, field, prefix) ==
    LET d == GroupBy(w.features, field)
    IN  export_split_to_csv(Built(ReadAll(w), name, d), d, 1, prefix)

\* (faulty variant: the directory is left at csv_exports on return)
export_all_splits_to_csv_NoRestore(w) ==
    LET original_output == w.output_dir
        csv_dir == Append(w.output_dir, "csv_exports")
        w1 == CsvSplit(SetOutputDir(w, csv_dir), "csv_owner", F_OWNER, P_owner)
        w2 == CsvSplit(w1, "csv_zoning", F_ZONING, P_zoning)
        w3 == CsvSplit(w2, "csv_route", F_ROUTE, P_route)
        w4 == CsvSplit(w3, "csv_municipality", F_MUNICIPALITY, P_municipality)
        w5 == CsvSplit(w4, "csv_neighborhood", F_NEIGHBORHOOD, P_neighborhood)
        w6 == CsvSplit(w5, "csv_year_built", F_YEAR, P_year_built)
        w7 == export_to_csv(w6, N_all_properties)
    IN  IF w1.raised # "none" THEN w1
        ELSE IF w2.raised # "none" THEN w2
        ELSE IF w3.raised # "none" THEN w3
        ELSE IF w4.raised # "none" THEN w4
        ELSE IF w5.raised # "none" THEN w5
        ELSE IF w6.raised # "none" THEN w6
        ELSE w7

\* (faulty variant: the directory is put back on the error path too)
export_all_splits_to_csv_Finally(w) ==
    [export_all_splits_to_csv_NoRestore(w) EXCEPT !.output_dir = w.output_dir]

export_all_splits_to_csv(w) ==
    LET original_output == w.output_dir
        csv_dir == Append(w.output_dir, "csv_exports")
        w1 == CsvSplit(SetOutputDir(w, csv_dir), "csv_owner", F_OWNER, P_owner)
        w2 == CsvSplit(w1, "csv_zoning", F_ZONING, P_zoning)
        w3 == CsvSplit(w2, "csv_route", F_ROUTE, P_route)
        w4 == CsvSplit(w3, "csv_municipality", F_MUNICIPALITY, P_municipality)
        w5 == CsvSplit(w4, "csv_neighborhood", F_NEIGHBORHOOD, P_neighborhood)
        w6 == CsvSplit(w5, "csv_year_built", F_YEAR, P_year_built)
        w7 == export_to_csv(w6, N_all_properties)
    IN  IF w1.raised # "none" THEN w1
        ELSE IF w2.raised # "none" THEN w2
        ELSE IF w3.raised # "none" THEN w3
        ELSE IF w4.raised # "none" THEN w4
        ELSE IF w5.raised # "none" THEN w5
        ELSE IF w6.raised # "none" THEN w6
        ELSE IF w7.raised # "none" THEN w7
        ELSE SetOutputDir(w7, original_output)

(***************************************************************************)
(* The summary report and the training-data streams.                       *)
(***************************************************************************)
\* dist[value] = dist.get(value, 0) + 1
CountInto(dist, k) ==
    IF HasKey(dist, k)
    THEN [dist EXCEPT ![IndexOf(dist, k)].v = @ + 1]
    ELSE Append(dist, [k |-> k, v |-> 1])

RECURSIVE Distribution(_, _, _, _)
Distribution(feats, field, i, dist) ==
    IF i > Len(feats) THEN dist
    ELSE Distribution(feats, field, i + 1,
                      CountInto(dist, get_property_value(feats[i], field, Unknown)))

\* len(set(self.get_property_value(f, field) for f in self.features))
UniqueCount(feats, field) ==
    Cardinality({get_property_value(feats[i], field, Unknown) : i \in 1..Len(feats)})

SummaryFields == <<F_OWNER, F_ZONING, F_ROUTE, F_MUNICIPALITY, F_NEIGHBORHOOD, F_YEAR>>

N_summary_report == <<"s", "u", "m", "m", "a", "r", "y", "_", "r", "e", "p", "o", "r", "t", ".", "j", "s", "o", "n">>
N_property_stories == <<"p", "r", "o", "p", "e", "r", "t", "y", "_", "s", "t", "o", "r", "i", "e", "s", ".", "j", "s", "o", "n", "l">>
N_property_qa_pairs == <<"p", "r", "o", "p", "e", "r", "t", "y", "_", "q", "a", "_", "p", "a", "i", "r", "s", ".", "j", "s", "o", "n", "l">>

\* the member name json.dump writes for a dict key: a str as it is, an int
\* as its digits, None as null
JsonKey(v) ==
    CASE v.t = "str" -> v.s
      [] v.t = "int" -> PyStr(v)
      [] OTHER -> <<"n", "u", "l", "l">>

\* the members json.dump writes for a dict, one per key, in insertion order
JsonMembers(dist) == [j \in 1..Len(dist) |-> [k |-> JsonKey(dist[j].k), v |-> dist[j].v]]

create_summary_report(w) ==
    LET summary ==
            [total_features |-> Len(w.features),
             unique |-> [d \in 1..Len(SummaryFields) |-> UniqueCount(w.features, SummaryFields[d])],
             distribution |-> [d \in 1..Len(SummaryFields) |->
                                  JsonMembers(Distribution(w.features, SummaryFields[d], 1, <<>>))]]
    IN  WriteFile(ReadAll(w), Path(w.output_dir, N_summary_report), SummaryContent(summary))

\* The file is opened, then one example is written per feature in feature
\* order; a null property bag raises inside the loop, leaving the examples
\* of the features before it in the file.
WriteStream(w, name, kind) ==
    LET k == FirstNullBag(w.features)
        written == IF k = 0 THEN w.features ELSE SubSeq(w.features, 1, k - 1)
        w1 == WriteFile(w, Path(w.output_dir, name), TextContent(kind, written))
    IN  IF k = 0 THEN w1 ELSE Raise(w1, "AttributeError")

\* one training example per feature
generate_property_stories(w) == WriteStream(w, N_property_stories, "stories")

\* five question/answer examples per feature
generate_qa_pairs(w) == WriteStream(w, N_property_qa_pairs, "qa_pairs")

(***************************************************************************)
(* Loading.                                                                *)
(***************************************************************************)
\* What open() and json.load() find at self.input_file.
load_data(w, doc) ==
    IF w.raised # "none" THEN w
    ELSE CASE doc.kind = "missing" -> [w EXCEPT !.raised = "SystemExit"]
           [] doc.kind = "invalid" -> [w EXCEPT !.raised = "SystemExit"]
           [] doc.kind \in {"array", "scalar"} -> [w EXCEPT !.raised = "AttributeError"]
           [] doc.kind = "object" ->
                IF doc.type = "FeatureCollection"
                THEN [w EXCEPT !.features = doc.features]
                ELSE [w EXCEPT !.features = <<>>]

(***************************************************************************)
(* run_all_splits                                                          *)
(***************************************************************************)
\* (faulty variant: the zoning split is not given its own subdirectory)
run_all_splits_Misdirected(w, doc, chunk_size, records_per_file) ==
    LET w0 == load_data(w, doc)
        original_output == w0.output_dir
        w1 == split_by_owner(SetOutputDir(w0, Append(original_output, "by_owner")))
        w2 == split_by_zoning(w1)
        w3 == split_by_trash_route(SetOutputDir(w2, Append(original_output, "by_route")))
        w4 == split_by_municipality(SetOutputDir(w3, Append(original_output, "by_municipality")))
        w5 == split_by_neighborhood(SetOutputDir(w4, Append(original_output, "by_neighborhood")))
        w6 == split_by_year_built(SetOutputDir(w5, Append(original_output, "by_year_built")))
        w7 == split_by_chunk_size(SetOutputDir(w6, Append(original_output, "by_chunks")), chunk_size)
        w8 == split_by_address_range(SetOutputDir(w7, Append(original_output, "by_address")),
                                     records_per_file)
        w9 == create_summary_report(SetOutputDir(w8, original_output))
        w10 == export_all_splits_to_csv(w9)
        w11 == generate_property_stories(w10)
    IN  IF w0.raised # "none" THEN w0
        ELSE IF w1.raised # "none" THEN w1
        ELSE IF w2.raised # "none" THEN w2
        ELSE IF w3.raised # "none" THEN w3
        ELSE IF w4.raised # "none" THEN w4
        ELSE IF w5.raised # "none" THEN w5
        ELSE IF w6.raised # "none" THEN w6
        ELSE IF w7.raised # "none" THEN w7
        ELSE IF w8.raised # "none" THEN w8
        ELSE IF w9.raised # "none" THEN w9
        ELSE IF w10.raised # "none" THEN w10
        ELSE IF w11.raised # "none" THEN w11
        ELSE generate_qa_pairs(w11)

run_all_splits(w, doc, chunk_size, records_per_file) ==
    LET w0 == load_data(w, doc)
        original_output == w0.output_dir
        w1 == split_by_owner(SetOutputDir(w0, Append(original_output, "by_owner")))
        w2 == split_by_zoning(SetOutputDir(w1, Append(original_output, "by_zoning")))
        w3 == split_by_trash_route(SetOutputDir(w2, Append(original_output, "by_route")))
        w4 == split_by_municipality(SetOutputDir(w3, Append(original_output, "by_municipality")))
        w5 == split_by_neighborhood(SetOutputDir(w4, Append(original_output, "by_neighborhood")))
        w6 == split_by_year_built(SetOutputDir(w5, Append(original_output, "by_year_built")))
        w7 == split_by_chunk_size(SetOutputDir(w6, Append(original_output, "by_chunks")), chunk_size)
        w8 == split_by_address_range(SetOutputDir(w7, Append(original_output, "by_address")),
                                     records_per_file)
        w9 == create_summary_report(SetOutputDir(w8, original_output))
        w10 == export_all_splits_to_csv(w9)
        w11 == generate_property_stories(w10)
    IN  IF w0.raised # "none" THEN w0
        ELSE IF w1.raised # "none" THEN w1
        ELSE IF w2.raised # "none" THEN w2
        ELSE IF w3.raised # "none" THEN w3
        ELSE IF w4.raised # "none" THEN w4
        ELSE IF w5.raised # "none" THEN w5
        ELSE IF w6.raised # "none" THEN w6
        ELSE IF w7.raised # "none" THEN w7
        ELSE IF w8.raised # "none" THEN w8
        ELSE IF w9.raised # "none" THEN w9
        ELSE IF w10.raised # "none" THEN w10
        ELSE IF w11.raised # "none" THEN w11
        ELSE generate_qa_pairs(w11)

(***************************************************************************)
(* create_rag_data.py: the story chunks and the search index.              *)
(***************************************************************************)
P_rag_chunk == <<"c", "o", "r", "a", "l", "_", "g", "a", "b", "l", "e", "s", "_", "p", "r", "o", "p", "e", "r", "t", "i", "e", "s", "_", "c", "h", "u", "n", "k">>
E_txt == <<"t", "x", "t">>
N_rag_summary == <<"c", "o", "r", "a", "l", "_", "g", "a", "b", "l", "e", "s", "_", "s", "u", "m", "m", "a", "r", "y", ".", "t", "x", "t">>
N_search_index == <<"p", "r", "o", "p", "e", "r", "t", "y", "_", "s", "e", "a", "r", "c", "h", "_", "i", "n", "d", "e", "x", ".", "t", "x", "t">>
IndexChunkSize == 100

\* chunks i = 0 .. num_chunks - 1 of create_story_chunks, keyed by i + 1
RECURSIVE StoryChunkList(_, _, _, _)
StoryChunkList(props, i, num_chunks, chunk_size) ==
    IF i >= num_chunks THEN <<>>
    ELSE LET start_idx == i * chunk_size
             end_idx == Min((i + 1) * chunk_size, Len(props))
         IN  <<[k |-> IntV(i + 1), v |-> Slice(props, start_idx, end_idx)]>>
             \o StoryChunkList(props, i + 1, num_chunks, chunk_size)

RECURSIVE WriteStoryChunks(_, _, _)
WriteStoryChunks(w, chunks, j) ==
    IF j > Len(chunks) THEN w
    ELSE WriteStoryChunks(
             WriteFile(w, Path(w.output_dir, FileName(P_rag_chunk, Pad3(chunks[j].k.n), E_txt)),
                       TextContent("story_chunk", chunks[j].v)),
             chunks, j + 1)

\* chunk_size >= 0 here (main reads it with int(input()))
create_story_chunks(w, chunk_size) ==
    IF w.raised # "none" THEN w
    ELSE IF chunk_size = 0 THEN [w EXCEPT !.raised = "ZeroDivisionError"]
    ELSE LET total_properties == Len(w.properties)
             num_chunks == (total_properties + chunk_size - 1) \div chunk_size
             chunks == StoryChunkList(w.properties, 0, num_chunks, chunk_size)
         IN  WriteStoryChunks(Built(w, "story_chunks", chunks), chunks, 1)

create_summary_file(w) ==
    WriteFile(w, Path(w.output_dir, N_rag_summary), TextContent("rag_summary", w.properties))

\* one index line per property: its chunk file and its property number
create_search_index(w) ==
    LET line(i) == <<FileName(P_rag_chunk, Pad3(((i - 1) \div IndexChunkSize) + 1), E_txt),
                     NatStr(i)>>
    IN  WriteFile(w, Path(w.output_dir, N_search_index),
                  [kind |-> "search_index", features |-> w.properties, header |-> <<>>,
                   rows |-> [i \in 1..Len(w.properties) |-> line(i)], summary |-> NoSummary])

\* CoralGablesRAGProcessor.load_data: TRUE iff it returns True
rag_load_ok(doc) ==
    \/ doc.kind = "array"
    \/ doc.kind = "object" /\ doc.has_properties

rag_load_data(w, doc) ==
    IF rag_load_ok(doc) THEN [w EXCEPT !.properties = doc.items] ELSE w

(***************************************************************************)
(* simple_data_analysis.py: loading, extraction, statistics, report.       *)
(***************************************************************************)
\* SimpleCoralGablesAnalyzer.load_data: TRUE iff it returns True
analyzer_load_ok(doc) == doc.kind \notin {"missing", "invalid"}

analyzer_load_data(w, doc) ==
    IF w.raised # "none" THEN w
    ELSE CASE doc.kind \in {"missing", "invalid"} -> w
           [] doc.kind \in {"array", "scalar"} -> [w EXCEPT !.raised = "AttributeError"]
           [] doc.kind = "object" ->
                IF doc.type = "FeatureCollection"
                THEN [w EXCEPT !.features = doc.features]
                ELSE [w EXCEPT !.features = <<>>]

DigitValue(c) == CHOOSE d \in 0..9 : Digit(d) = c

IsDigits(s) == s # <<>> /\ \A i \in 1..Len(s) : \E d \in 0..9 : Digit(d) = s[i]

RECURSIVE NatOf(_)
NatOf(s) ==
    IF s = <<>> THEN 0 ELSE NatOf(SubSeq(s, 1, Len(s) - 1)) * 10 + DigitValue(s[Len(s)])

\* float(value) if value and value != 'Unknown' else 0.0, and 0.0 when
\* float() raises ValueError or TypeError.  The numerals of the model are
\* the ints and the strings of digits.
safe_float(value) ==
    CASE value.t = "none" -> 0
      [] value.t = "int" -> value.n
      [] value.t = "str" -> IF IsDigits(value.s) THEN NatOf(value.s) ELSE 0

\* prop_info of one feature
PropInfo(feature) ==
    LET bag == PropertiesOf(feature)
        text(key) == DictGet(bag, key, Unknown)
        number(key) == safe_float(DictGet(bag, key, IntV(0)))
    IN  [address |-> text("AddressPoints.ADDRESS"),
         owner |-> text("AddressPoints.TRUE_OWNER"),
         zoning |-> text("AddressPoints.PRIMARY_ZO"),
         municipality |-> text("AddressPoints.MUNICIPALI"),
         neighborhood |-> text("AddressPoints.NEIGHBORHO"),
         year_built |-> text("AddressPoints.YEAR_BUILT"),
         trash_route |-> text("AddressPoints.TRASH_ROUT"),
         building_value |-> number("AddressPoints.BUILDING_V"),
         land_value |-> number("AddressPoints.LAND_VAL"),
         total_value |-> number("AddressPoints.TOTAL_VAL"),
         city_taxable |-> number("AddressPoints.CITY_TAXAB"),
         county_taxable |-> number("AddressPoints.CNTY_TAXAB"),
         flood_zone |-> text("AddressPoints.FLOOD_ZONE"),
         land_use |-> text("AddressPoints.LAND_USE"),
         square_footage |-> number("AddressPoints.SQ_FT"),
         bedrooms |-> number("AddressPoints.BEDROOMS"),
         bathrooms |-> number("AddressPoints.BATHROOMS"),
         stories |-> number("AddressPoints.STORIES")]

\* for feature in self.features: self.property_data.append(prop_info); a
\* null property bag raises after the features before it were appended
extract_property_data(w) ==
    IF w.raised # "none" THEN w
    ELSE LET k == FirstNullBag(w.features)
             upto == IF k = 0 THEN Len(w.features) ELSE k - 1
             w1 == [w EXCEPT !.property_data =
                                 @ \o [i \in 1..upto |-> PropInfo(w.features[i])]]
         IN  IF k = 0 THEN w1 ELSE Raise(w1, "AttributeError")

\* The numbers of the statistics are exact: a fraction in lowest terms.
RECURSIVE GCD(_, _)
GCD(a, b) == IF b = 0 THEN a ELSE GCD(b, a % b)

Num(n, d) ==
    LET g == GCD(IF n < 0 THEN -n ELSE n, d)
    IN  [t |-> "num", num |-> n \div g, den |-> d \div g]

NumZero == Num(0, 1)

NumLess(a, b) == a.num * b.den < b.num * a.den

\* what the statistics module raises on a sample that is too small
StatisticsError == [t |-> "StatisticsError", num |-> 0, den |-> 1]

RECURSIVE SumOf(_)
SumOf(xs) == IF xs = <<>> THEN 0 ELSE xs[1] + SumOf(Tail(xs))

RECURSIVE SortNums(_, _, _)
SortNums(xs, i, acc) ==
    IF i > Len(xs) THEN acc
    ELSE LET before == {j \in 1..Len(acc) : acc[j] <= xs[i]}
         IN  SortNums(xs, i + 1, InsertAt(acc, Cardinality(before) + 1, xs[i]))

MinOf(xs) == CHOOSE x \in {xs[i] : i \in 1..Len(xs)} : \A i \in 1..Len(xs) : x <= xs[i]
MaxOf(xs) == CHOOSE x \in {xs[i] : i \in 1..Len(xs)} : \A i \in 1..Len(xs) : x >= xs[i]

\* statistics.mean, statistics.median, statistics.stdev
py_mean(xs) == IF xs = <<>> THEN StatisticsError ELSE Num(SumOf(xs), Len(xs))

py_median(xs) ==
    IF xs = <<>> THEN StatisticsError
    ELSE LET sorted_xs == SortNums(xs, 1, <<>>)
             n == Len(xs)
         IN  IF n % 2 = 1 THEN Num(sorted_xs[(n + 1) \div 2], 1)
             ELSE Num(sorted_xs[n \div 2] + sorted_xs[n \div 2 + 1], 2)

\* the sample standard deviation: an error below two values, 0 when all
\* values are equal, else a positive number the model keeps unevaluated
py_stdev(xs) ==
    IF Len(xs) < 2 THEN StatisticsError
    ELSE IF \A i \in 1..Len(xs) : xs[i] = xs[1] THEN NumZero
    ELSE [t |-> "stdev", sample |-> SortNums(xs, 1, <<>>)]

\* (faulty variant: statistics.stdev without the len(values) > 1 guard)
ValueStatisticsUnguarded(values) ==
    IF values # <<>>
    THEN [mean_value |-> py_mean(values), median_value |-> py_median(values),
          min_value |-> Num(MinOf(values), 1), max_value |-> Num(MaxOf(values), 1),
          std_value |-> py_stdev(values)]
    ELSE [mean_value |-> NumZero, median_value |-> NumZero, min_value |-> NumZero,
          max_value |-> NumZero, std_value |-> NumZero]

\* if values: ... else: mean_value = median_value = ... = std_value = 0
ValueStatistics(values) ==
    IF values # <<>>
    THEN [mean_value |-> py_mean(values), median_value |-> py_median(values),
          min_value |-> Num(MinOf(values), 1), max_value |-> Num(MaxOf(values), 1),
          std_value |-> IF Len(values) > 1 THEN py_stdev(values) ELSE NumZero]
    ELSE [mean_value |-> NumZero, median_value |-> NumZero, min_value |-> NumZero,
          max_value |-> NumZero, std_value |-> NumZero]

\* values = [p['total_value'] for p in self.property_data if p['total_value'] > 0]
PositiveValues(data) ==
    LET kept == SelectSeq(data, LAMBDA p : p.total_value > 0)
    IN  [i \in 1..Len(kept) |-> kept[i].total_value]

MinYear == 1800
MaxYear == 2024

\* int(year): ok is FALSE where it raises ValueError or TypeError
PyInt(v) ==
    CASE v.t = "int" -> [ok |-> TRUE, n |-> v.n]
      [] v.t = "str" -> IF IsDigits(v.s) THEN [ok |-> TRUE, n |-> NatOf(v.s)]
                                         ELSE [ok |-> FALSE, n |-> 0]
      [] OTHER -> [ok |-> FALSE, n |-> 0]

\* the years that are not 'Unknown', convert with int() and lie in the range
ValidYears(data) ==
    LET kept == SelectSeq(data, LAMBDA p : /\ p.year_built # Unknown
                                           /\ PyInt(p.year_built).ok
                                           /\ MinYear <= PyInt(p.year_built).n
                                           /\ PyInt(p.year_built).n <= MaxYear)
    IN  [i \in 1..Len(kept) |-> PyInt(kept[i].year_built).n]

YearStatistics(valid_years) ==
    IF valid_years # <<>>
    THEN [mean_year |-> py_mean(valid_years), median_year |-> py_median(valid_years),
          min_year |-> Num(MinOf(valid_years), 1), max_year |-> Num(MaxOf(valid_years), 1)]
    ELSE [mean_year |-> NumZero, median_year |-> NumZero, min_year |-> NumZero,
          max_year |-> NumZero]

basic_statistics(w) ==
    LET data == w.property_data
    IN  [total_properties |-> Len(data),
         properties_with_addresses |->
             Cardinality({i \in 1..Len(data) : data[i].address # Unknown}),
         properties_with_owners |->
             Cardinality({i \in 1..Len(data) : data[i].owner # Unknown}),
         properties_with_values |->
             Cardinality({i \in 1..Len(data) : data[i].total_value > 0}),
         properties_with_year_built |->
             Cardinality({i \in 1..Len(data) : data[i].year_built # Unknown}),
         unique_owners |-> Cardinality({data[i].owner : i \in 1..Len(data)}),
         unique_zoning_types |-> Cardinality({data[i].zoning : i \in 1..Len(data)}),
         unique_neighborhoods |-> Cardinality({data[i].neighborhood : i \in 1..Len(data)}),
         unique_municipalities |-> Cardinality({data[i].municipality : i \in 1..Len(data)}),
         value_statistics |-> ValueStatistics(PositiveValues(data)),
         year_built_statistics |-> YearStatistics(ValidYears(data))]

\* a statistics call inside basic_statistics has raised
StatsRaised(stats) ==
    \/ \E f \in DOMAIN stats.value_statistics : stats.value_statistics[f] = StatisticsError
    \/ \E f \in DOMAIN stats.year_built_statistics :
           stats.year_built_statistics[f] = StatisticsError

\* Counter(values): counts by key, keys in order of first occurrence
RECURSIVE CounterOf(_, _, _)
CounterOf(values, i, dist) ==
    IF i > Len(values) THEN dist
    ELSE CounterOf(values, i + 1, CountInto(dist, values[i]))

\* sorted(entries, key=value, reverse=True): descending, entries of equal
\* value in their original order
RECURSIVE SortedDesc(_, _, _)
SortedDesc(entries, i, acc) ==
    IF i > Len(entries) THEN acc
    ELSE LET ahead == {j \in 1..Len(acc) : ~NumLess(acc[j].v, entries[i].v)}
         IN  SortedDesc(entries, i + 1, InsertAt(acc, Cardinality(ahead) + 1, entries[i]))

\* seq[:n]
FirstN(seq, n) == SubSeq(seq, 1, IF Len(seq) < n THEN Len(seq) ELSE n)

MostCommonKept == 20
TopByValueKept == 10
ReportTop == 10

\* the counts of a Counter as numbers
AsNums(dist) == [j \in 1..Len(dist) |-> [k |-> dist[j].k, v |-> Num(dist[j].v, 1)]]

\* owner_counts.most_common(20); the owner types and the per-owner
\* statistics are not part of the model
ownership_analysis(w) ==
    LET data == w.property_data
        owner_counts == CounterOf([i \in 1..Len(data) |-> data[i].owner], 1, <<>>)
    IN  [top_owners |-> FirstN(SortedDesc(AsNums(owner_counts), 1, <<>>), MostCommonKept)]

\* values of the records with total_value > 0, by the record's key
RECURSIVE ValuesBy(_, _, _, _)
ValuesBy(data, field, i, d) ==
    IF i > Len(data) THEN d
    ELSE ValuesBy(data, field, i + 1,
                  IF data[i].total_value > 0
                  THEN DictAppend(d, data[i][field], data[i].total_value)
                  ELSE d)

\* {key: {'mean': ..., 'median': ..., 'count': ...}}
ValueAnalysisBy(data, field) ==
    LET d == ValuesBy(data, field, 1, <<>>)
    IN  [j \in 1..Len(d) |->
            [k |-> d[j].k,
             v |-> [mean |-> py_mean(d[j].v), median |-> py_median(d[j].v),
                    count |-> Len(d[j].v)]]]

\* sorted([(key, data['mean']) ...], key=lambda x: x[1], reverse=True)[:10]
TopByValue(analysis) ==
    FirstN(SortedDesc([j \in 1..Len(analysis) |-> [k |-> analysis[j].k, v |-> analysis[j].v.mean]],
                      1, <<>>),
           TopByValueKept)

zoning_analysis(w) ==
    LET data == w.property_data
        zoning_counts == CounterOf([i \in 1..Len(data) |-> data[i].zoning], 1, <<>>)
        zoning_value_analysis == ValueAnalysisBy(data, "zoning")
    IN  [zoning_distribution |-> AsNums(zoning_counts),
         zoning_value_analysis |-> zoning_value_analysis,
         top_zoning_by_value |-> TopByValue(zoning_value_analysis)]

neighborhood_analysis(w) ==
    LET data == w.property_data
        neighborhood_counts == CounterOf([i \in 1..Len(data) |-> data[i].neighborhood], 1, <<>>)
        neighborhood_value_analysis == ValueAnalysisBy(data, "neighborhood")
    IN  [neighborhood_distribution |-> AsNums(neighborhood_counts),
         neighborhood_value_analysis |-> neighborhood_value_analysis,
         top_neighborhoods_by_value |-> TopByValue(neighborhood_value_analysis)]

\* (min_val, max_val, label); the last range has max_val = float('inf')
ValueRanges ==
    <<[min_val |-> 0, max_val |-> 100000, inf |-> FALSE, label |-> "Under $100k"],
      [min_val |-> 100000, max_val |-> 250000, inf |-> FALSE, label |-> "$100k-$250k"],
      [min_val |-> 250000, max_val |-> 500000, inf |-> FALSE, label |-> "$250k-$500k"],
      [min_val |-> 500000, max_val |-> 1000000, inf |-> FALSE, label |-> "$500k-$1M"],
      [min_val |-> 1000000, max_val |-> 2500000, inf |-> FALSE, label |-> "$1M-$2.5M"],
      [min_val |-> 2500000, max_val |-> 5000000, inf |-> FALSE, label |-> "$2.5M-$5M"],
      [min_val |-> 5000000, max_val |-> 0, inf |-> TRUE, label |-> "Over $5M"]>>

\* the condition under which a record is counted in a range
InRange(range, total_value) ==
    IF range.inf
    THEN total_value >= range.min_val /\ total_value > 0
    ELSE range.min_val <= total_value /\ total_value < range.max_val

value_analysis(w) ==
    LET data == w.property_data
    IN  [value_distribution |->
            [r \in 1..Len(ValueRanges) |->
                [k |-> ValueRanges[r].label,
                 v |-> Cardinality({i \in 1..Len(data) :
                                        InRange(ValueRanges[r], data[i].total_value)})]]]

N_analysis_report == <<"c", "o", "r", "a", "l", "_", "g", "a", "b", "l", "e", "s", "_", "a", "n", "a", "l", "y", "s", "i", "s", "_", "r", "e", "p", "o", "r", "t", ".", "t", "x", "t">>

\* the lines of the report that the properties are about: the statistics,
\* the four "Top 10" lists and the value distribution with its percentages
ReportOf(stats, ownership, zoning, neighborhood, value) ==
    [stats |-> stats,
     top_owners |-> FirstN(ownership.top_owners, ReportTop),
     top_zoning_by_count |-> FirstN(zoning.zoning_distribution, ReportTop),
     top_zoning_by_value |-> FirstN(zoning.top_zoning_by_value, ReportTop),
     top_neighborhoods_by_value |-> FirstN(neighborhood.top_neighborhoods_by_value, ReportTop),
     value_distribution |->
         [r \in 1..Len(value.value_distribution) |->
             [k |-> value.value_distribution[r].k,
              v |-> value.value_distribution[r].v,
              percentage |-> IF stats.properties_with_values > 0
                             THEN Num(value.value_distribution[r].v * 100,
                                      stats.properties_with_values)
                             ELSE NumZero]]]

\* f"{owner[:50]:<50}" raises TypeError for an owner that is not text, and
\* f"{zone:<30}" for a key that is None
ReportFormats(report) ==
    /\ \A j \in 1..Len(report.top_owners) : report.top_owners[j].k.t = "str"
    /\ \A j \in 1..Len(report.top_zoning_by_count) : report.top_zoning_by_count[j].k.t # "none"
    /\ \A j \in 1..Len(report.top_zoning_by_value) : report.top_zoning_by_value[j].k.t # "none"
    /\ \A j \in 1..Len(report.top_neighborhoods_by_value) :
           report.top_neighborhoods_by_value[j].k.t # "none"

\* the report is built, then written with
\* open('coral_gables_analysis_report.txt', 'w') in the working directory
generate_report(w, stats, ownership, zoning, neighborhood, value) ==
    LET report == ReportOf(stats, ownership, zoning, neighborhood, value)
    IN  IF w.raised # "none" THEN w
        ELSE IF ~ReportFormats(report) THEN Raise(w, "TypeError")
        ELSE WriteFile(w, Path(<<>>, N_analysis_report), SummaryContent(report))

\* run_complete_analysis after load_data and extract_property_data: the
\* five analyses, then generate_report
AnalyzeAndReport(w) ==
    LET stats == basic_statistics(w)
        ownership == ownership_analysis(w)
        zoning == zoning_analysis(w)
        neighborhood == neighborhood_analysis(w)
        value == value_analysis(w)
        w1 == Built(Built(Built(Built(Built(w, "stats", stats), "ownership", ownership),
                                "zoning_stats", zoning), "neighborhood_stats", neighborhood),
                    "value", value)
    IN  IF w.raised # "none" THEN w
        ELSE IF StatsRaised(stats) THEN Raise(w, "StatisticsError")
        ELSE generate_report(w1, stats, ownership, zoning, neighborhood, value)

run_complete_analysis(w, doc) ==
    LET w0 == analyzer_load_data(w, doc)
    IN  IF ~analyzer_load_ok(doc) THEN w0
        ELSE AnalyzeAndReport(extract_property_data(w0))

(***************************************************************************)
(* The inputs of the model.                                                *)
(***************************************************************************)
S_Alice == <<"A", "l", "i", "c", "e">>
S_A60 == Rep("A", 60)
S_A60B == Rep("A", 60) \o <<"B">>
S_YearEast ==
    <<"1", "9", "2", "6", "/", "2", "7", " ", "r", "e", "b", "u", "i", "l", "t", " ",
      "2", "0", "0", "5", " ", "e", "a", "s", "t">>
S_YearWest ==
    <<"1", "9", "2", "6", "/", "2", "7", " ", "r", "e", "b", "u", "i", "l", "t", " ",
      "2", "0", "0", "5", " ", "w", "e", "s", "t">>

S_R1 == <<"R", "-", "1">>
S_C1 == <<"C", "-", "1">>
S_Mon == <<"M", "o", "n">>
S_CG == <<"C", "G">>
S_North == <<"N", "o", "r", "t", "h">>
S_2020 == <<"2", "0", "2", "0">>
S_20_OAK == <<"2", "0", " ", "O", "A", "K">>
S_100_MAIN == <<"1", "0", "0", " ", "M", "A", "I", "N">>
S_A_space_B == <<"A", " ", "B">>
S_A_slash_B == <<"A", "/", "B">>
S_A_backslash_B == <<"A", "\\", "B">>
S_A_underscore_B == <<"A", "_", "B">>

Feature1 ==
    [type |-> "Feature",
     geometry |-> [type |-> "Point", coordinates |-> <<-80, 25>>],
     properties |-> (F_OWNER :> StrV(S_Alice) @@ F_ZONING :> StrV(S_R1)
                     @@ F_ROUTE :> StrV(S_Mon) @@ F_MUNICIPALITY :> StrV(S_CG)
                     @@ F_NEIGHBORHOOD :> StrV(S_North) @@ F_YEAR :> IntV(2020)
                     @@ F_ADDRESS :> StrV(S_20_OAK))]
Feature2 ==
    [type |-> "Feature",
     properties |-> (F_OWNER :> StrV(S_Alice) @@ F_ZONING :> StrV(S_C1)
                     @@ F_ROUTE :> StrV(S_Mon) @@ F_MUNICIPALITY :> StrV(S_CG)
                     @@ F_NEIGHBORHOOD :> StrV(S_A_space_B) @@ F_YEAR :> StrV(S_2020)
                     @@ F_ADDRESS :> StrV(S_100_MAIN))]
Feature3 ==
    [type |-> "Feature",
     properties |-> (F_OWNER :> StrV(S_A60) @@ F_ZONING :> StrV(S_A_slash_B)
                     @@ F_ROUTE :> StrV(S_A_backslash_B) @@ F_YEAR :> StrV(S_YearEast))]
Feature4 ==
    [type |-> "Feature",
     properties |-> (F_OWNER :> StrV(S_A60B) @@ F_ZONING :> StrV(S_A_underscore_B)
                     @@ F_NEIGHBORHOOD :> StrV(S_A_underscore_B) @@ F_YEAR :> StrV(S_YearWest)
                     @@ F_ADDRESS :> StrV(S_20_OAK))]
Feature5 == [type |-> "Feature"]

FeaturePool == {Feature1, Feature2, Feature3, Feature4, Feature5}

SeqsUpTo(S, n) == UNION {[1..k -> S] : k \in 0..n}

Datasets == SeqsUpTo(FeaturePool, MaxRecords)

\* Malformed records: "properties": null, and a number where the address
\* text is expected.
Feature6 == [type |-> "Feature", properties |-> NoneV]
Feature7 == [type |-> "Feature",
             properties |-> (F_OWNER :> StrV(S_Alice) @@ F_ADDRESS :> IntV(20))]

MalformedDatasets ==
    {<<Feature6>>, <<Feature1, Feature6, Feature2>>, <<Feature7>>, <<Feature1, Feature7>>}

\* What the splitter and the analyzer can find at their input path: no
\* file, text that is not JSON, a JSON array or scalar, an object without a
\* "type", an object of another type, a FeatureCollection.
Documents ==
    {[kind |-> "missing"], [kind |-> "invalid"], [kind |-> "array"], [kind |-> "scalar"],
     [kind |-> "object", type |-> "(absent)", features |-> <<Feature1>>],
     [kind |-> "object", type |-> "Topology", features |-> <<Feature1>>]}
    \cup {[kind |-> "object", type |-> "FeatureCollection", features |-> D] :
              D \in Datasets \cup MalformedDatasets}

RagItem1 == [AddressPoints |-> [ADDRESS |-> StrV(S_20_OAK), GRANTEE_1 |-> StrV(S_Alice)]]
RagItem2 == [AddressPoints |-> [ADDRESS |-> StrV(S_100_MAIN)]]
RagItem3 == [OBJECTID |-> IntV(3)]

RagPool == {RagItem1, RagItem2, RagItem3}

\* What the RAG processor can find at its input path.
RagDocuments ==
    {[kind |-> "missing", has_properties |-> FALSE, items |-> <<>>],
     [kind |-> "invalid", has_properties |-> FALSE, items |-> <<>>],
     [kind |-> "object", has_properties |-> FALSE, items |-> <<>>],
     [kind |-> "object", has_properties |-> FALSE, items |-> <<>>,
      type |-> "FeatureCollection", features |-> <<Feature1, Feature2>>]}
    \cup {[kind |-> "array", has_properties |-> FALSE, items |-> D] :
              D \in SeqsUpTo(RagPool, MaxRagRecords)}
    \cup {[kind |-> "object", has_properties |-> TRUE, items |-> D] :
              D \in SeqsUpTo(RagPool, MaxRagRecords)}

\* Records with the values the analyzer reads: a total value as a number
\* and as text, none at all, a negative one; a year as a number and as
\* text, one out of range, one that is no number.
S_250000 == <<"2", "5", "0", "0", "0", "0">>
F_TOTAL_VAL == "AddressPoints.TOTAL_VAL"

Valued1 ==
    [type |-> "Feature",
     properties |-> (F_OWNER :> StrV(S_Alice) @@ F_ZONING :> StrV(S_R1)
                     @@ F_NEIGHBORHOOD :> StrV(S_North) @@ F_TOTAL_VAL :> IntV(50000)
                     @@ F_YEAR :> IntV(1995))]
Valued2 ==
    [type |-> "Feature",
     properties |-> (F_OWNER :> StrV(S_Alice) @@ F_ZONING :> StrV(S_C1)
                     @@ F_NEIGHBORHOOD :> StrV(S_North) @@ F_TOTAL_VAL :> IntV(1200000)
                     @@ F_YEAR :> StrV(S_2020))]
Valued3 ==
    [type |-> "Feature",
     properties |-> (F_ZONING :> StrV(S_C1) @@ F_NEIGHBORHOOD :> StrV(S_A_space_B)
                     @@ F_TOTAL_VAL :> StrV(S_250000) @@ F_YEAR :> IntV(1700))]
Valued4 ==
    [type |-> "Feature",
     properties |-> (F_OWNER :> StrV(S_Alice) @@ F_ZONING :> StrV(S_R1)
                     @@ F_TOTAL_VAL :> IntV(-1))]

\* Feature3 has no total value and a year that is no number
AnalyzerPool == {Valued1, Valued2, Valued3, Valued4, Feature3}

MaxAnalyzerRecords == 3

AnalyzerDocuments ==
    {[kind |-> "missing"]}
    \cup {[kind |-> "object", type |-> "FeatureCollection", features |-> D] :
              D \in SeqsUpTo(AnalyzerPool, MaxAnalyzerRecords)}

\* Files an earlier run left in the splitter's output directory (__init__
\* creates the directory with exist_ok=True and leaves its files in place).
StaleFs ==
    Path(<<"split_output">>, FileName(P_owner, S_Alice, E_json)) :> JsonContent(<<Feature5>>)
    @@ Path(<<"split_output", "by_owner">>, FileName(P_owner, S_Alice, E_json))
           :> JsonContent(<<Feature5>>)

EmptyFs == <<>>

(***************************************************************************)
(* The processes.  main() of each script calls the methods in the order    *)
(* pc records; an exception that escapes a method ends the process with    *)
(* exit status 1.                                                          *)
(***************************************************************************)
Running == -1

\* How the disk behaves during a method: it serves every open(..., 'w')
\* block, or it serves n of them and fails the next, at open() or at the
\* writes.
NeverFails == [n |-> NoFail, fail |-> "open"]
Budgets == {NeverFails} \cup {[n |-> n, fail |-> k] : n \in 0..MaxFailAt, k \in {"open", "write"}}
Sizes == 0..MaxChunkSize
\* <<chunk_size, records_per_file>> of the full runs
RunArgs == {<<2, 1>>, <<1, 2>>, <<0, 1>>, <<1, 0>>}

\* nothing has been called yet
NoCall ==
    [op |-> "init", arg |-> 0, arg2 |-> 0, raised |-> "none", error_file |-> NoFile, at |-> NoFile]

Init ==
    /\ script \in {"splitter", "rag", "analyzer"}
    /\ input \in IF script = "rag" THEN RagDocuments ELSE Documents
    /\ pc = "start"
    /\ features = <<>>
    /\ loaded = <<>>
    /\ properties = <<>>
    /\ property_data = <<>>
    /\ output_dir = CASE script = "splitter" -> <<"split_output">>
                       [] script = "rag" -> <<"rag_data">>
                       [] script = "analyzer" -> <<>>
    /\ fs = IF script = "splitter" THEN StaleFs ELSE EmptyFs
    /\ log = <<>>
    /\ parts = <<>>
    /\ last = NoCall
    /\ exit_code = Running
    /\ calls = 0

\* self, at the start of a method call
Self(budget) ==
    [features |-> features, properties |-> properties, property_data |-> property_data,
     output_dir |-> output_dir, fs |-> fs, log |-> <<>>, parts |-> <<>>,
     raised |-> "none", error_file |-> NoFile, at |-> NoFile,
     budget |-> budget.n, fail |-> budget.fail]

\* the method has returned, or an exception has escaped it: the object and
\* the disk are as the method left them; dataset is what load_data has
\* produced by then
Store(w, op, arg, arg2, dataset) ==
    /\ features' = w.features
    /\ loaded' = dataset
    /\ properties' = w.properties
    /\ property_data' = w.property_data
    /\ output_dir' = w.output_dir
    /\ fs' = w.fs
    /\ log' = w.log
    /\ parts' = w.parts
    /\ last' = [op |-> op, arg |-> arg, arg2 |-> arg2, raised |-> w.raised,
                error_file |-> w.error_file, at |-> w.at]

\* ... in main: an exception that escapes ends the process
CommitLoad(w, op, arg, arg2, next_pc, dataset) ==
    /\ Store(w, op, arg, arg2, dataset)
    /\ pc' = IF w.raised = "none" THEN next_pc ELSE "exit"
    /\ exit_code' = IF w.raised = "none"
                    THEN (IF next_pc = "exit" THEN 0 ELSE exit_code)
                    ELSE 1
    /\ UNCHANGED <<script, input, calls>>

Commit2(w, op, arg, arg2, next_pc) == CommitLoad(w, op, arg, arg2, next_pc, loaded)

Commit(w, op, arg, next_pc) == Commit2(w, op, arg, 0, next_pc)

LoadData ==
    /\ script = "splitter" /\ pc = "start"
    /\ LET w == load_data(Self(NeverFails), input)
       IN  CommitLoad(w, "load_data", 0, 0, "loaded", w.features)

SplitByOwner ==
    /\ script = "splitter" /\ pc = "loaded"
    /\ \E b \in Budgets : Commit(split_by_owner(Self(b)), "split_by_owner", 0, "split_done")

SplitByZoning ==
    /\ script = "splitter" /\ pc = "loaded"
    /\ \E b \in Budgets : Commit(split_by_zoning(Self(b)), "split_by_zoning", 0, "split_done")

SplitByTrashRoute ==
    /\ script = "splitter" /\ pc = "loaded"
    /\ \E b \in Budgets :
           Commit(split_by_trash_route(Self(b)), "split_by_trash_route", 0, "split_done")

SplitByMunicipality ==
    /\ script = "splitter" /\ pc = "loaded"
    /\ \E b \in Budgets :
           Commit(split_by_municipality(Self(b)), "split_by_municipality", 0, "split_done")

SplitByNeighborhood ==
    /\ script = "splitter" /\ pc = "loaded"
    /\ \E b \in Budgets :
           Commit(split_by_neighborhood(Self(b)), "split_by_neighborhood", 0, "split_done")

SplitByYearBuilt ==
    /\ script = "splitter" /\ pc = "loaded"
    /\ \E b \in Budgets :
           Commit(split_by_year_built(Self(b)), "split_by_year_built", 0, "split_done")

SplitByChunkSize ==
    /\ script = "splitter" /\ pc = "loaded"
    /\ \E b \in Budgets, n \in Sizes :
           Commit(split_by_chunk_size(Self(b), n), "split_by_chunk_size", n, "split_done")

SplitByAddressRange ==
    /\ script = "splitter" /\ pc = "loaded"
    /\ \E b \in Budgets, n \in Sizes :
           Commit(split_by_address_range(Self(b), n), "split_by_address_range", n, "split_done")

ExportAllSplitsToCsv ==
    /\ script = "splitter" /\ pc = "loaded"
    /\ \E b \in Budgets :
           Commit(export_all_splits_to_csv(Self(b)), "export_all_splits_to_csv", 0, "method_done")

CreateSummaryReport ==
    /\ script = "splitter" /\ pc = "split_done"
    /\ \E b \in Budgets :
           Commit(create_summary_report(Self(b)), "create_summary_report", 0, "method_done")

\* --method stories, or --llm-training after another method
GeneratePropertyStories ==
    /\ script = "splitter" /\ pc \in {"loaded", "method_done"}
    /\ \E b \in Budgets :
           Commit(generate_property_stories(Self(b)), "generate_property_stories", 0,
                  IF pc = "loaded" THEN "method_done" ELSE "stories_done")

\* --method qa_pairs, or --llm-training after the stories
GenerateQaPairs ==
    /\ script = "splitter" /\ pc \in {"loaded", "stories_done"}
    /\ \E b \in Budgets :
           Commit(generate_qa_pairs(Self(b)), "generate_qa_pairs", 0,
                  IF pc = "loaded" THEN "method_done" ELSE "exit")

\* --method all without --csv-only
RunAllSplits ==
    /\ script = "splitter" /\ pc = "start"
    /\ \E b \in Budgets, a \in RunArgs :
           CommitLoad(run_all_splits(Self(b), input, a[1], a[2]), "run_all_splits", a[1], a[2],
                      "exit", load_data(Self(b), input).features)

\* main returns without --llm-training
Finish ==
    /\ pc = "method_done"
    /\ pc' = "exit"
    /\ exit_code' = 0
    /\ UNCHANGED <<script, input, features, loaded, output_dir, properties, property_data, fs, log,
                   parts, last, calls>>

\* process_all: load_data, and return False when it fails
RagLoadData ==
    /\ script = "rag" /\ pc = "start"
    /\ LET w == rag_load_data(Self(NeverFails), input)
       IN  CommitLoad(w, "rag_load_data", 0, 0,
                      IF rag_load_ok(input) THEN "loaded" ELSE "exit", w.properties)

CreateStoryChunks ==
    /\ script = "rag" /\ pc = "loaded"
    /\ \E b \in Budgets, n \in Sizes :
           Commit(create_story_chunks(Self(b), n), "create_story_chunks", n, "chunked")

CreateSummaryFile ==
    /\ script = "rag" /\ pc = "chunked"
    /\ \E b \in Budgets :
           Commit(create_summary_file(Self(b)), "create_summary_file", 0, "summarized")

CreateSearchIndex ==
    /\ script = "rag" /\ pc = "summarized"
    /\ \E b \in Budgets :
           Commit(create_search_index(Self(b)), "create_search_index", 0, "exit")

\* run_complete_analysis: load_data, and return False when it fails
AnalyzerLoadData ==
    /\ script = "analyzer" /\ pc = "start"
    /\ LET w == analyzer_load_data(Self(NeverFails), input)
       IN  CommitLoad(w, "analyzer_load_data", 0, 0,
                      IF analyzer_load_ok(input) THEN "loaded" ELSE "exit", w.features)

ExtractPropertyData ==
    /\ script = "analyzer" /\ pc = "loaded"
    /\ Commit(extract_property_data(Self(NeverFails)), "extract_property_data", 0, "extracted")

\* the analyses, then generate_report; run_complete_analysis and main return
GenerateReport ==
    /\ script = "analyzer" /\ pc = "extracted"
    /\ \E b \in Budgets :
           Commit(AnalyzeAndReport(Self(b)), "generate_report", 0, "exit")

Next ==
    \/ LoadData
    \/ SplitByOwner
    \/ SplitByZoning
    \/ SplitByTrashRoute
    \/ SplitByMunicipality
    \/ SplitByNeighborhood
    \/ SplitByYearBuilt
    \/ SplitByChunkSize
    \/ SplitByAddressRange
    \/ ExportAllSplitsToCsv
    \/ CreateSummaryReport
    \/ GeneratePropertyStories
    \/ GenerateQaPairs
    \/ RunAllSplits
    \/ Finish
    \/ RagLoadData
    \/ CreateStoryChunks
    \/ CreateSummaryFile
    \/ CreateSearchIndex
    \/ AnalyzerLoadData
    \/ ExtractPropertyData
    \/ GenerateReport

Spec == Init /\ [][Next]_vars

(***************************************************************************)
(* The analyzer's main() on inputs that carry values and years.            *)
(***************************************************************************)
InitAnalysis ==
    /\ script = "analyzer"
    /\ input \in AnalyzerDocuments
    /\ pc = "start"
    /\ features = <<>>
    /\ loaded = <<>>
    /\ properties = <<>>
    /\ property_data = <<>>
    /\ output_dir = <<>>
    /\ fs = EmptyFs
    /\ log = <<>>
    /\ parts = <<>>
    /\ last = NoCall
    /\ exit_code = Running
    /\ calls = 0

NextAnalysis ==
    \/ AnalyzerLoadData
    \/ ExtractPropertyData
    \/ GenerateReport

SpecAnalysis == InitAnalysis /\ [][NextAnalysis]_vars

(***************************************************************************)
(* The analyzer as an object: a caller creates one                         *)
(* SimpleCoralGablesAnalyzer and calls its methods in any order (those     *)
(* that change the object at most MaxCalls times); an exception goes to    *)
(* the caller and the object lives on.                                     *)
(***************************************************************************)
MaxCalls == 3

MaxObjectRecords == 2

\* what the object's input path holds
ObjectDocuments ==
    {[kind |-> "missing"]}
    \cup {[kind |-> "object", type |-> "FeatureCollection", features |-> D] :
              D \in SeqsUpTo({Valued1, Valued2, Feature3}, MaxObjectRecords)}

InitAnalyzer ==
    /\ script = "analyzer"
    /\ input \in ObjectDocuments
    /\ pc = "object"
    /\ features = <<>>
    /\ loaded = <<>>
    /\ properties = <<>>
    /\ property_data = <<>>
    /\ output_dir = <<>>
    /\ fs = EmptyFs
    /\ log = <<>>
    /\ parts = <<>>
    /\ last = NoCall
    /\ exit_code = Running
    /\ calls = 0

\* a method called by the caller has returned or raised
Called(w, op, dataset) ==
    /\ calls < MaxCalls
    /\ Store(w, op, 0, 0, dataset)
    /\ calls' = calls + 1
    /\ UNCHANGED <<script, input, pc, exit_code>>

\* a method that only reads the object has returned a dict or raised; such
\* calls are not counted
Returned(w, name, d) ==
    /\ Store(Built(w, name, d), name, 0, 0, loaded)
    /\ UNCHANGED <<script, input, pc, exit_code, calls>>

CallLoadData ==
    /\ script = "analyzer" /\ pc = "object"
    /\ LET w == analyzer_load_data(Self(NeverFails), input)
       IN  Called(w, "analyzer_load_data", w.features)

CallExtractPropertyData ==
    /\ script = "analyzer" /\ pc = "object"
    /\ Called(extract_property_data(Self(NeverFails)), "extract_property_data", loaded)

CallBasicStatistics ==
    /\ script = "analyzer" /\ pc = "object"
    /\ LET w == Self(NeverFails)
           stats == basic_statistics(w)
       IN  IF StatsRaised(stats)
           THEN Returned(Raise(w, "StatisticsError"), "stats", stats)
           ELSE Returned(w, "stats", stats)

CallOwnershipAnalysis ==
    /\ script = "analyzer" /\ pc = "object"
    /\ LET w == Self(NeverFails) IN Returned(w, "ownership", ownership_analysis(w))

CallZoningAnalysis ==
    /\ script = "analyzer" /\ pc = "object"
    /\ LET w == Self(NeverFails) IN Returned(w, "zoning_stats", zoning_analysis(w))

CallNeighborhoodAnalysis ==
    /\ script = "analyzer" /\ pc = "object"
    /\ LET w == Self(NeverFails) IN Returned(w, "neighborhood_stats", neighborhood_analysis(w))

CallValueAnalysis ==
    /\ script = "analyzer" /\ pc = "object"
    /\ LET w == Self(NeverFails) IN Returned(w, "value", value_analysis(w))

CallRunCompleteAnalysis ==
    /\ script = "analyzer" /\ pc = "object"
    /\ \E b \in Budgets :
           LET w == run_complete_analysis(Self(b), input)
           IN  Called(w, "run_complete_analysis", w.features)

NextAnalyzer ==
    \/ CallLoadData
    \/ CallExtractPropertyData
    \/ CallBasicStatistics
    \/ CallOwnershipAnalysis
    \/ CallZoningAnalysis
    \/ CallNeighborhoodAnalysis
    \/ CallValueAnalysis
    \/ CallRunCompleteAnalysis

SpecAnalyzer == InitAnalyzer /\ [][NextAnalyzer]_vars

(***************************************************************************)
(* The splitter as an object: a caller builds one ImprovedCGPropertiesSplitter *)
(* and calls its methods in any order, catching the exception a call       *)
(* raises and going on with the same object.                               *)
(***************************************************************************)
SplitterObjectDocuments ==
    {[kind |-> "object", type |-> "FeatureCollection", features |-> D] :
         D \in {<<>>, <<Feature1>>, <<Feature1, Feature2>>}}

\* <<chunk_size, records_per_file>> of the caller's full runs
ObjectRunArgs == {<<2, 1>>}

\* no I/O error, the first open() refused, the disk full at the second file
ObjectBudgets == {NeverFails, [n |-> 0, fail |-> "open"], [n |-> 1, fail |-> "write"]}

InitSplitter ==
    /\ script = "splitter"
    /\ input \in SplitterObjectDocuments
    /\ pc = "object"
    /\ features = <<>>
    /\ loaded = <<>>
    /\ properties = <<>>
    /\ property_data = <<>>
    /\ output_dir = <<"split_output">>
    /\ fs = EmptyFs
    /\ log = <<>>
    /\ parts = <<>>
    /\ last = NoCall
    /\ exit_code = Running
    /\ calls = 0

CallSplitterLoadData ==
    /\ script = "splitter" /\ pc = "object"
    /\ LET w == load_data(Self(NeverFails), input)
       IN  Called(w, "load_data", w.features)

CallSplitByOwner ==
    /\ script = "splitter" /\ pc = "object"
    /\ \E b \in ObjectBudgets : Called(split_by_owner(Self(b)), "split_by_owner", loaded)

CallCreateSummaryReport ==
    /\ script = "splitter" /\ pc = "object"
    /\ \E b \in ObjectBudgets : Called(create_summary_report(Self(b)), "create_summary_report", loaded)

CallExportAllSplitsToCsv ==
    /\ script = "splitter" /\ pc = "object"
    /\ \E b \in ObjectBudgets :
           Called(export_all_splits_to_csv(Self(b)), "export_all_splits_to_csv", loaded)

CallGeneratePropertyStories ==
    /\ script = "splitter" /\ pc = "object"
    /\ \E b \in ObjectBudgets :
           Called(generate_property_stories(Self(b)), "generate_property_stories", loaded)

CallRunAllSplits ==
    /\ script = "splitter" /\ pc = "object"
    /\ \E b \in ObjectBudgets, a \in ObjectRunArgs :
           LET w == run_all_splits(Self(b), input, a[1], a[2])
           IN  Called(w, "run_all_splits", w.features)

NextSplitter ==
    \/ CallSplitterLoadData
    \/ CallSplitByOwner
    \/ CallCreateSummaryReport
    \/ CallExportAllSplitsToCsv
    \/ CallGeneratePropertyStories
    \/ CallRunAllSplits

SpecSplitter == InitSplitter /\ [][NextSplitter]_vars

(***************************************************************************)
(* Vocabulary of the properties.                                           *)
(***************************************************************************)
Completed == last.raised = "none"

\* The key-grouping dicts by the name the operations give them: the field
\* grouped on, the filename prefix and extension, and the subdirectory a full
\* run or a CSV export writes them to.
PartTable ==
    [owner |-> [field |-> F_OWNER, limit |-> OwnerMaxLen, prefix |-> P_owner, ext |-> E_json, sub |-> "by_owner"],
     zoning |-> [field |-> F_ZONING, limit |-> ZoningMaxLen, prefix |-> P_zoning, ext |-> E_json, sub |-> "by_zoning"],
     route |-> [field |-> F_ROUTE, limit |-> RouteMaxLen, prefix |-> P_route, ext |-> E_json, sub |-> "by_route"],
     municipality |-> [field |-> F_MUNICIPALITY, limit |-> MunicipalityMaxLen, prefix |-> P_municipality, ext |-> E_json,
                       sub |-> "by_municipality"],
     neighborhood |-> [field |-> F_NEIGHBORHOOD, limit |-> NeighborhoodMaxLen, prefix |-> P_neighborhood, ext |-> E_json,
                       sub |-> "by_neighborhood"],
     year_built |-> [field |-> F_YEAR, limit |-> YearMaxLen, prefix |-> P_year_built, ext |-> E_json,
                     sub |-> "by_year_built"],
     csv_owner |-> [field |-> F_OWNER, limit |-> CsvMaxLen, prefix |-> P_owner, ext |-> E_csv, sub |-> "csv_exports"],
     csv_zoning |-> [field |-> F_ZONING, limit |-> CsvMaxLen, prefix |-> P_zoning, ext |-> E_csv, sub |-> "csv_exports"],
     csv_route |-> [field |-> F_ROUTE, limit |-> CsvMaxLen, prefix |-> P_route, ext |-> E_csv, sub |-> "csv_exports"],
     csv_municipality |-> [field |-> F_MUNICIPALITY, limit |-> CsvMaxLen, prefix |-> P_municipality, ext |-> E_csv,
                           sub |-> "csv_exports"],
     csv_neighborhood |-> [field |-> F_NEIGHBORHOOD, limit |-> CsvMaxLen, prefix |-> P_neighborhood, ext |-> E_csv,
                           sub |-> "csv_exports"],
     csv_year_built |-> [field |-> F_YEAR, limit |-> CsvMaxLen, prefix |-> P_year_built, ext |-> E_csv,
                         sub |-> "csv_exports"]]

KeyPartNames == DOMAIN PartTable

\* the key-grouping dicts the last operation built
KeyDicts == {p \in 1..Len(parts) : parts[p].name \in KeyPartNames}

KeyOf(feature, field) == get_property_value(feature, field, Unknown)

RECURSIVE SumLen(_)
SumLen(d) == IF d = <<>> THEN 0 ELSE Len(d[1].v) + SumLen(Tail(d))

RECURSIVE Concat(_)
Concat(d) == IF d = <<>> THEN <<>> ELSE d[1].v \o Concat(Tail(d))

Count(seq, x) == Cardinality({i \in 1..Len(seq) : seq[i] = x})

IsPermutation(a, b) ==
    /\ Len(a) = Len(b)
    /\ \A i \in 1..Len(a) : Count(a, a[i]) = Count(b, a[i])

(***************************************************************************)
(* C1.  In every key-grouping dict an operation builds, each record of the *)
(* dataset is in exactly one group, and the group sizes sum to the size of *)
(* the dataset.                                                            *)
(***************************************************************************)
C1_ExhaustiveCoverage ==
    \A p \in KeyDicts :
        LET d == parts[p].dict
        IN  /\ SumLen(d) = Len(features)
            /\ \A i \in 1..Len(features) :
                   Cardinality({j \in 1..Len(d) :
                                    \E m \in 1..Len(d[j].v) : d[j].v[m] = features[i]}) = 1

\* The scenario of two records of owner "Alice" with zoning "R-1" and "C-1",
\* in a full run: one owner group of two, two zoning groups of one.
C1_Witness ==
    /\ last.op = "run_all_splits" /\ Completed
    /\ features = <<Feature1, Feature2>>
    /\ \E p \in KeyDicts :
           /\ parts[p].name = "owner"
           /\ parts[p].dict = <<[k |-> StrV(S_Alice), v |-> <<Feature1, Feature2>>]>>
    /\ \E p \in KeyDicts :
           /\ parts[p].name = "csv_zoning"
           /\ Len(parts[p].dict) = 2
           /\ \A j \in 1..2 : Len(parts[p].dict[j].v) = 1

(***************************************************************************)
(* C2.  The groups of a key-grouping dict, concatenated in insertion       *)
(* order, are a permutation of the dataset, and each group lists its       *)
(* records in the order they have in the dataset.                          *)
(***************************************************************************)
C2_OrderPreserved ==
    \A p \in KeyDicts :
        LET d == parts[p].dict
            field == PartTable[parts[p].name].field
        IN  /\ IsPermutation(Concat(d), features)
            /\ \A j \in 1..Len(d) :
                   d[j].v = SelectSeq(features, LAMBDA f : PyEq(KeyOf(f, field), d[j].k))

\* A group whose two records are separated in the dataset by a record of
\* another group.
C2_Witness ==
    /\ last.op = "split_by_owner"
    /\ features = <<Feature1, Feature3, Feature2>>
    /\ \E p \in KeyDicts :
           parts[p].dict = <<[k |-> StrV(S_Alice), v |-> <<Feature1, Feature2>>],
                             [k |-> StrV(S_A60), v |-> <<Feature3>>]>>

(***************************************************************************)
(* The files of a key-grouping dict.                                       *)
(***************************************************************************)
\* The splitter's output directory (main never changes it).
OriginalDir == <<"split_output">>

\* where the last operation writes the files of the dict named name
PartDir(name) ==
    IF last.op = "run_all_splits" \/ PartTable[name].ext = E_csv
    THEN Append(OriginalDir, PartTable[name].sub)
    ELSE OriginalDir

HasPrefix(name, prefix) ==
    Len(name) >= Len(prefix) /\ SubSeq(name, 1, Len(prefix)) = prefix

HasSuffix(name, suffix) ==
    Len(name) >= Len(suffix) /\ SubSeq(name, Len(name) - Len(suffix) + 1, Len(name)) = suffix

\* the file name group j of the dict at parts[p] is written to
GroupFileName(p, j) ==
    LET t == PartTable[parts[p].name]
    IN  FileName(t.prefix, Sanitize(parts[p].dict[j].k, t.limit), t.ext)

GroupPath(p, j) == Path(PartDir(parts[p].name), GroupFileName(p, j))

\* the writes of the last operation that belong to the dict at parts[p]
LogOfPart(p) ==
    LET t == PartTable[parts[p].name]
    IN  SelectSeq(log, LAMBDA e : /\ e.path.dir = PartDir(parts[p].name)
                                  /\ HasPrefix(e.path.name, t.prefix \o <<"_">>)
                                  /\ HasSuffix(e.path.name, <<".">> \o t.ext))

\* the positions of the dataset at which a key of the field occurs first
FirstIdx(field) ==
    {i \in 1..Len(features) :
         \A i2 \in 1..(i - 1) : ~PyEq(KeyOf(features[i2], field), KeyOf(features[i], field))}

\* the j-th smallest element of a set of numbers
Nth(S, j) == CHOOSE i \in S : Cardinality({x \in S : x < i}) = j - 1

(***************************************************************************)
(* C3.  The files of a key-grouping export are written in the order in     *)
(* which the keys first occur in the dataset: the j-th file written is the *)
(* file of the j-th distinct key, and holds the records of that key.       *)
(***************************************************************************)
C3_FirstOccurrenceOrder ==
    \A p \in KeyDicts :
        LET t == PartTable[parts[p].name]
            first == FirstIdx(t.field)
            written == LogOfPart(p)
        IN  /\ Len(written) <= Cardinality(first)
            /\ Completed => Len(written) = Cardinality(first)
            /\ \A j \in 1..Len(written) :
                   LET key == KeyOf(features[Nth(first, j)], t.field)
                   IN  /\ written[j].path.name = FileName(t.prefix, Sanitize(key, t.limit), t.ext)
                       /\ written[j].content.features
                              = SelectSeq(features, LAMBDA f : PyEq(KeyOf(f, t.field), key))

\* A CSV export of neighborhoods "North", "A B", "North": the file of
\* "North" is written first although "A B" sorts first.
C3_Witness ==
    /\ last.op = "export_all_splits_to_csv" /\ Completed
    /\ features = <<Feature1, Feature2, Feature1>>
    /\ \E p \in KeyDicts :
           /\ parts[p].name = "csv_neighborhood"
           /\ Len(LogOfPart(p)) = 2
           /\ LogOfPart(p)[1].path.name = FileName(P_neighborhood, S_North, E_csv)
           /\ LogOfPart(p)[2].path.name = FileName(P_neighborhood, S_A_underscore_B, E_csv)

(***************************************************************************)
(* C4.  Records whose grouping-field values have the same string form are  *)
(* in the same group.                                                      *)
(***************************************************************************)
C4_StringFormGroups ==
    \A p \in KeyDicts :
        LET d == parts[p].dict
            field == PartTable[parts[p].name].field
        IN  \A i1, i2 \in 1..Len(features) :
                PyStr(KeyOf(features[i1], field)) = PyStr(KeyOf(features[i2], field))
                    => \E j \in 1..Len(d) : /\ PyEq(d[j].k, KeyOf(features[i1], field))
                                            /\ PyEq(d[j].k, KeyOf(features[i2], field))

(***************************************************************************)
(* C5.  Two distinct groups of one key-grouping export never get the same  *)
(* file name.                                                              *)
(***************************************************************************)
C5_InjectiveFileNames ==
    \A p \in KeyDicts :
        \A j1, j2 \in 1..Len(parts[p].dict) :
            j1 # j2 => GroupFileName(p, j1) # GroupFileName(p, j2)

(***************************************************************************)
(* C6.  After a key-grouping export has completed there is one file per    *)
(* group, and each file holds exactly the records of its group.            *)
(***************************************************************************)
C6_OneFilePerGroup ==
    Completed =>
        \A p \in KeyDicts :
            LET d == parts[p].dict
                written == LogOfPart(p)
            IN  /\ Cardinality({written[j].path : j \in 1..Len(written)}) = Len(d)
                /\ \A j \in 1..Len(d) :
                       /\ GroupPath(p, j) \in DOMAIN fs
                       /\ fs[GroupPath(p, j)].features = d[j].v

(***************************************************************************)
(* C7.  The keys "A"*60 and "A"*60+"B" sanitize to the same 50 characters; *)
(* when groups of a completed export share a file name, one file exists    *)
(* for them and it holds the records of the last of these groups only.     *)
(***************************************************************************)
\* the last group of the dict at parts[p] with the file name of group j
LastWithName(p, j) ==
    CHOOSE j2 \in 1..Len(parts[p].dict) :
        /\ GroupFileName(p, j2) = GroupFileName(p, j)
        /\ \A j3 \in 1..Len(parts[p].dict) :
               GroupFileName(p, j3) = GroupFileName(p, j) => j3 <= j2

C7_TruncationCollision ==
    /\ Sanitize(StrV(S_A60), 50) = Sanitize(StrV(S_A60B), 50)
    /\ Len(Sanitize(StrV(S_A60), 50)) = 50
    /\ Completed =>
           \A p \in KeyDicts :
               PartTable[parts[p].name].limit = 50 =>
                   /\ \A j \in 1..Len(parts[p].dict) :
                          /\ GroupPath(p, j) \in DOMAIN fs
                          /\ fs[GroupPath(p, j)].features
                                 = parts[p].dict[LastWithName(p, j)].v
                   /\ {LogOfPart(p)[j].path : j \in 1..Len(LogOfPart(p))}
                          = {GroupPath(p, j) : j \in 1..Len(parts[p].dict)}

\* Owners "A"*60 then "A"*60+"B": two groups, one file, the second group's
\* record in it.
C7_Witness ==
    /\ last.op = "split_by_owner" /\ Completed
    /\ features = <<Feature3, Feature4>>
    /\ \E p \in KeyDicts :
           /\ Len(parts[p].dict) = 2
           /\ GroupFileName(p, 1) = GroupFileName(p, 2)
           /\ GroupFileName(p, 1) = FileName(P_owner, Rep("A", 50), E_json)
           /\ fs[GroupPath(p, 1)].features = <<Feature4>>
    /\ Len(log) = 2

(***************************************************************************)
(* C8.  The key-derived part of the name of every grouping artifact, JSON  *)
(* or CSV, has no space, '/' or '\', and at most 50 characters for a       *)
(* category key, 30 for each endpoint of an address range, 20 for a        *)
(* year-built key.                                                         *)
(***************************************************************************)
\* name without its first a and its last b characters
Strip(name, a, b) == SubSeq(name, a + 1, Len(name) - b)

SafeChars(chars) == \A i \in 1..Len(chars) : chars[i] \notin {" ", "/", "\\"}

\* the part of a file name between "prefix_" and ".ext"
KeyPortion(name, prefix) ==
    IF HasSuffix(name, <<".">> \o E_json)
    THEN Strip(name, Len(prefix) + 1, Len(E_json) + 1)
    ELSE Strip(name, Len(prefix) + 1, Len(E_csv) + 1)

CategoryPrefixes == {P_owner, P_zoning, P_route, P_municipality, P_neighborhood}

\* chars is start \o "_to_" \o end with both endpoints of at most n characters
IsRange(chars, n) ==
    \E k \in 1..Len(chars) :
        /\ k + 3 <= Len(chars)
        /\ SubSeq(chars, k, k + 3) = <<"_", "t", "o", "_">>
        /\ k - 1 <= n
        /\ Len(chars) - (k + 3) <= n

C8_SafeBoundedNames ==
    \A e \in 1..Len(log) :
        LET name == log[e].path.name
        IN  /\ \A prefix \in CategoryPrefixes :
                   HasPrefix(name, prefix \o <<"_">>) =>
                       /\ SafeChars(KeyPortion(name, prefix))
                       /\ Len(KeyPortion(name, prefix)) <= 50
            /\ HasPrefix(name, P_year_built \o <<"_">>) =>
                   /\ SafeChars(KeyPortion(name, P_year_built))
                   /\ Len(KeyPortion(name, P_year_built)) <= 20
            /\ HasPrefix(name, P_address_range \o <<"_">>) =>
                   \* after "address_range_", three digits and "_"
                   /\ SafeChars(KeyPortion(name, P_address_range))
                   /\ IsRange(Strip(KeyPortion(name, P_address_range), 4, 0), 30)

(***************************************************************************)
(* C9.  Chunking a list of len records with chunk size n >= 1 gives        *)
(* ceil(len / n) chunks numbered 1..k, all but the last of exactly n       *)
(* records, whose concatenation in number order is the list; the files     *)
(* written are these chunks.                                               *)
(***************************************************************************)
\* the least k with k * n >= a
CeilDiv(a, n) == CHOOSE k \in 0..a : k * n >= a /\ (k = 0 \/ (k - 1) * n < a)

ChunkDicts == {p \in 1..Len(parts) : parts[p].name \in {"chunks", "story_chunks"}}

C9_Chunking ==
    /\ \A p \in ChunkDicts :
           LET d == parts[p].dict
               n == last.arg
               source == IF parts[p].name = "chunks" THEN features ELSE properties
           IN  /\ n >= 1
               /\ Len(d) = CeilDiv(Len(source), n)
               /\ \A j \in 1..Len(d) : d[j].k = IntV(j)
               /\ \A j \in 1..(Len(d) - 1) : Len(d[j].v) = n
               /\ Concat(d) = source
    /\ last.op \in {"split_by_chunk_size", "create_story_chunks"} /\ Completed /\ last.arg >= 1 =>
           /\ Len(parts) = 1 /\ ChunkDicts = {1}
           /\ Len(log) = Len(parts[1].dict)
           /\ \A j \in 1..Len(log) :
                  /\ log[j].content.features = parts[1].dict[j].v
                  /\ fs[log[j].path] = log[j].content
                  /\ log[j].path.name =
                         IF last.op = "split_by_chunk_size"
                         THEN FileName(P_chunk, Pad3(j), E_json)
                         ELSE FileName(P_rag_chunk, Pad3(j), E_txt)

\* Three records in chunks of two, by the splitter: chunks of 2 and 1.
C9_Witness ==
    /\ last.op = "split_by_chunk_size" /\ Completed /\ last.arg = 2
    /\ features = <<Feature1, Feature2, Feature3>>
    /\ Len(log) = 2
    /\ log[2].path.name = FileName(P_chunk, <<"0", "0", "2">>, E_json)
    /\ log[2].content.features = <<Feature3>>

(***************************************************************************)
(* C10.  split_by_address_range orders the records by the address sort key *)
(* with a stable sort and cuts the result into consecutive runs of         *)
(* records_per_file: every record is in exactly one file, keys do not      *)
(* decrease inside a file, and the last key of a file is not greater than  *)
(* the first key of the next.                                              *)
(***************************************************************************)
AddressDicts == {p \in 1..Len(parts) : parts[p].name = "address"}

RecordsPerFile == IF last.op = "run_all_splits" THEN last.arg2 ELSE last.arg

KeyLeq(a, b) == ~PyLess(SortKey(b), SortKey(a))

C10_SortedRanges ==
    /\ \A p \in AddressDicts :
           LET d == parts[p].dict
               n == RecordsPerFile
               all == Concat(d)
           IN  /\ n >= 1
               /\ IsPermutation(all, features)
               \* stable: records of equal key keep their order
               /\ \A i \in 1..Len(features) :
                      SelectSeq(all, LAMBDA f : SortKey(f) = SortKey(features[i]))
                          = SelectSeq(features, LAMBDA f : SortKey(f) = SortKey(features[i]))
               \* consecutive runs of n
               /\ Len(d) = CeilDiv(Len(features), n)
               /\ \A j \in 1..(Len(d) - 1) : Len(d[j].v) = n
               /\ \A j \in 1..Len(d) : Len(d[j].v) \in 1..n
               \* ordered inside a file and across files
               /\ \A j \in 1..Len(d) :
                      \A i \in 1..(Len(d[j].v) - 1) : KeyLeq(d[j].v[i], d[j].v[i + 1])
               /\ \A j \in 1..(Len(d) - 1) : KeyLeq(d[j].v[Len(d[j].v)], d[j + 1].v[1])
    /\ last.op = "split_by_address_range" /\ Completed /\ last.arg >= 1 =>
           /\ Len(parts) = 1 /\ AddressDicts = {1}
           /\ Len(log) = Len(parts[1].dict)
           /\ \A j \in 1..Len(log) :
                  /\ log[j].content.features = parts[1].dict[j].v
                  /\ fs[log[j].path] = log[j].content
           /\ \A j1, j2 \in 1..Len(log) : j1 # j2 => log[j1].path # log[j2].path

\* "20 OAK", "100 MAIN", "20 OAK" in files of two: "100 MAIN" sorts first,
\* and the two records of "20 OAK" keep their order across the file boundary.
C10_Witness ==
    /\ last.op = "split_by_address_range" /\ Completed /\ last.arg = 2
    /\ features = <<Feature1, Feature2, Feature4>>
    /\ Len(log) = 2
    /\ log[1].content.features = <<Feature2, Feature1>>
    /\ log[2].content.features = <<Feature4>>

(***************************************************************************)
(* C11.  The start and end labels in the name of every address-range file  *)
(* are the sanitized sort keys of the first and the last record of its     *)
(* chunk, also when such a record has no address.                          *)
(***************************************************************************)
\* the address-range files the last operation wrote, in write order
AddressLog == SelectSeq(log, LAMBDA e : HasPrefix(e.path.name, P_address_range \o <<"_">>))

\* the name of file j of the chunk list at parts[p], labelled with the keys
\* the records were sorted by
SortKeyFileName(p, j) ==
    LET chunk == parts[p].dict[j].v
    IN  AddressFileName(j, Sanitize(SortKey(chunk[1]), 30),
                        Sanitize(SortKey(chunk[Len(chunk)]), 30))

C11_LabelsAreSortKeys ==
    \A p \in AddressDicts :
        \A j \in 1..Len(AddressLog) :
            /\ AddressLog[j].content.features = parts[p].dict[j].v
            /\ AddressLog[j].path.name = SortKeyFileName(p, j)

\* the same, for the chunks whose first and last record have an address
C11_LabelsOfAddressedRecords ==
    \A p \in AddressDicts :
        \A j \in 1..Len(AddressLog) :
            LET chunk == parts[p].dict[j].v
            IN  (/\ F_ADDRESS \in DOMAIN PropertiesOf(chunk[1])
                 /\ F_ADDRESS \in DOMAIN PropertiesOf(chunk[Len(chunk)]))
                    => AddressLog[j].path.name = SortKeyFileName(p, j)

(***************************************************************************)
(* C12.  A record whose property bag lacks the grouping field is grouped   *)
(* under "Unknown": every dict has at most one such group, it holds every  *)
(* record lacking the field as often as the dataset does, and a grouping   *)
(* of a dataset of property bags (present or missing, none of them null)   *)
(* always builds its dict.                                                 *)
(***************************************************************************)
UnknownKey == [t |-> "str", s |-> <<"U", "n", "k", "n", "o", "w", "n">>, n |-> 0]

LacksField(feature, field) == ~IsNullBag(feature) /\ field \notin DOMAIN PropertiesOf(feature)

SingleSplits ==
    {"split_by_owner", "split_by_zoning", "split_by_trash_route", "split_by_municipality",
     "split_by_neighborhood", "split_by_year_built"}

C12_MissingFieldIsUnknown ==
    /\ \A p \in KeyDicts :
           LET d == parts[p].dict
               field == PartTable[parts[p].name].field
           IN  /\ Cardinality({j \in 1..Len(d) : d[j].k = UnknownKey}) <= 1
               /\ \A i \in 1..Len(features) :
                      LacksField(features[i], field) =>
                          \E j \in 1..Len(d) :
                              /\ d[j].k = UnknownKey
                              /\ Count(d[j].v, features[i]) = Count(features, features[i])
    /\ (last.op \in SingleSplits /\ \A i \in 1..Len(features) : ~IsNullBag(features[i])) =>
           /\ last.raised \in {"none", "OSError"}
           /\ Len(parts) = 1 /\ KeyDicts = {1}

\* Municipalities "CG", none (no such field), none (no property bag): the
\* second and third record form the group "Unknown".
C12_Witness ==
    /\ last.op = "split_by_municipality" /\ Completed
    /\ features = <<Feature1, Feature3, Feature5>>
    /\ parts = <<[name |-> "municipality",
                  dict |-> <<[k |-> StrV(S_CG), v |-> <<Feature1>>],
                             [k |-> UnknownKey, v |-> <<Feature3, Feature5>>]>>]>>
    /\ Len(log) = 2
    /\ log[2].content.features = <<Feature3, Feature5>>

(***************************************************************************)
(* C13.  The header of the CSV file of a group is the sorted union of the  *)
(* property keys of the records of that group, and the file has one row    *)
(* per record of the group, in group order.                                *)
(***************************************************************************)
CsvDicts == {p \in KeyDicts : PartTable[parts[p].name].ext = E_csv}

\* The characters of each property key after the common "AddressPoints".
KeyChars ==
    F_OWNER :> <<".", "T", "R", "U", "E", "_", "O", "W", "N", "E", "R">>
    @@ F_ZONING :> <<".", "P", "R", "I", "M", "A", "R", "Y", "_", "Z", "O">>
    @@ F_ROUTE :> <<"_", "A", "d", "d", "S", "p", "a", "t", "i", "a", "l", "J", "o", "i", "n", "_", "1", "0", ".", "R", "o", "u", "t", "e">>
    @@ F_MUNICIPALITY :> <<".", "M", "U", "N", "I", "C", "I", "P", "A", "L", "I">>
    @@ F_NEIGHBORHOOD :> <<".", "N", "E", "I", "G", "H", "B", "O", "R", "H", "O">>
    @@ F_YEAR :> <<".", "Y", "E", "A", "R", "_", "B", "U", "I", "L", "T">>
    @@ F_ADDRESS :> <<".", "T", "R", "U", "E", "_", "S", "I", "T", "E", "_">>

\* the header is in strictly ascending lexicographic order
SortedHeader(header) ==
    \A c \in 1..(Len(header) - 1) : StrLess(KeyChars[header[c]], KeyChars[header[c + 1]])

\* what a CSV cell holds for a record and a column
CellText(feature, field) ==
    LET bag == PropertiesOf(feature)
    IN  IF field \notin DOMAIN bag \/ bag[field].t = "none" THEN <<>> ELSE PyStr(bag[field])

C13_PerGroupHeader ==
    \A p \in CsvDicts :
        \A j \in 1..Len(LogOfPart(p)) :
            LET group == parts[p].dict[j].v
                file == LogOfPart(p)[j].content
            IN  /\ {file.header[c] : c \in 1..Len(file.header)}
                       = UNION {DOMAIN PropertiesOf(group[r]) : r \in 1..Len(group)}
                /\ SortedHeader(file.header)
                /\ Len(file.rows) = Len(group)
                /\ \A r \in 1..Len(group) :
                       /\ Len(file.rows[r]) = Len(file.header)
                       /\ \A c \in 1..Len(file.header) :
                              file.rows[r][c] = CellText(group[r], file.header[c])

\* Owners "Alice" (a record with all seven keys) and "A"*60 (a record with
\* four): the second file has four columns, the first has seven.
C13_Witness ==
    /\ last.op = "export_all_splits_to_csv" /\ Completed
    /\ features = <<Feature1, Feature3>>
    /\ \E p \in CsvDicts :
           /\ parts[p].name = "csv_owner"
           /\ Len(LogOfPart(p)) = 2
           /\ Len(LogOfPart(p)[1].content.header) = 7
           /\ LogOfPart(p)[2].content.header = <<F_ZONING, F_OWNER, F_YEAR, F_ROUTE>>
           /\ Len(LogOfPart(p)[2].content.rows) = 1

(***************************************************************************)
(* C14.  Tabular round trip.  Reading a CSV file back gives one dict per   *)
(* row, from the header's fields to the text of the cells.                 *)
(***************************************************************************)
\* csv.DictReader on a file: every value read back is a str
Reparse(file) ==
    [r \in 1..Len(file.rows) |->
        [field \in {file.header[c] : c \in 1..Len(file.header)} |->
            LET c == CHOOSE c \in 1..Len(file.header) : file.header[c] = field
            IN  [t |-> "str", s |-> file.rows[r][c], n |-> 0]]]

EmptyText == [t |-> "str", s |-> <<>>, n |-> 0]

\* the CSV files the last operation wrote
CsvLog == SelectSeq(log, LAMBDA e : e.content.kind = "csv")

IsFeatureCollection(doc) ==
    doc.kind = "object" /\ "type" \in DOMAIN doc /\ doc.type = "FeatureCollection"

ValidJson(doc) == doc.kind \in {"object", "array", "scalar"}

LoadOps == {"load_data", "analyzer_load_data"}

C15_TolerantLoad ==
    (/\ script \in {"splitter", "analyzer"}
     /\ last.op \in LoadOps
     /\ ValidJson(input) /\ ~IsFeatureCollection(input))
        => /\ last.raised = "none"
           /\ features = <<>>
           /\ pc = "loaded" /\ exit_code = Running

\* the same, for the documents whose top level is an object
C15_TolerantLoadOfObjects ==
    (/\ script \in {"splitter", "analyzer"}
     /\ last.op \in LoadOps
     /\ input.kind = "object" /\ ~IsFeatureCollection(input))
        => /\ last.raised = "none"
           /\ features = <<>>
           /\ pc = "loaded" /\ exit_code = Running

(***************************************************************************)
(* C16.  In every script the process ends with a non-zero exit status when *)
(* loading the input fails (file missing, or not valid JSON) and with exit *)
(* status zero in every other run; after a load failure no export or       *)
(* report step runs.                                                       *)
(***************************************************************************)
LoadFails(doc) == doc.kind \in {"missing", "invalid"}

Ended == pc = "exit"

\* no method after load_data has run and the disk is as the process found it
NothingExported ==
    /\ last.op \in LoadOps \cup {"rag_load_data", "run_all_splits"}
    /\ log = <<>>
    /\ fs = IF script = "splitter" THEN StaleFs ELSE EmptyFs

C16_ExitStatus ==
    Ended => /\ (exit_code # 0) <=> LoadFails(input)
             /\ LoadFails(input) => NothingExported

\* the parts of it that hold: the splitter's load failure is a non-zero
\* exit, and no script exports anything after a load failure
C16_SplitterLoadFailure ==
    (Ended /\ script = "splitter" /\ LoadFails(input)) => exit_code # 0

C16_NoStepAfterLoadFailure ==
    LoadFails(input) => (pc \in {"start", "exit"} /\ (Ended => NothingExported))

(***************************************************************************)
(* C17.  Each of the three scripts loads a document of the shape           *)
(* {type: "FeatureCollection", features: [...]} into a dataset whose       *)
(* records are the document's features, in document order.                 *)
(***************************************************************************)
\* the dataset of the script: self.features, or self.properties in the RAG
\* processor
Dataset == IF script = "rag" THEN properties ELSE features

LoadReturned == last.op \in LoadOps \cup {"rag_load_data"}

C17_LoadsFeatureCollection ==
    (LoadReturned /\ IsFeatureCollection(input))
        => /\ last.raised = "none"
           /\ pc = "loaded"
           /\ Dataset = input.features

\* the same, for the splitter and the analyzer
C17_SplitterAndAnalyzerLoad ==
    (LoadReturned /\ script # "rag" /\ IsFeatureCollection(input))
        => /\ last.raised = "none"
           /\ pc = "loaded"
           /\ Dataset = input.features

(***************************************************************************)
(* C18.  When the write of group k fails with an I/O error during a        *)
(* multi-group export, the export stops there (no file of a later group is *)
(* written), the files of groups 1..k-1 stay on disk as written, and the   *)
(* error that surfaces identifies the failing group.                       *)
(***************************************************************************)
\* a key-grouping split called on its own has ended in an I/O error; its
\* dict is parts[1] and the disk it started from is StaleFs
SplitFailed == last.op \in SingleSplits /\ last.raised = "OSError"

\* the group whose write failed: one write per group, in dict order
FailedGroup == Len(log) + 1

LogPaths == {log[i].path : i \in 1..Len(log)}

\* the export stops at group k: groups 1..k-1 were written, in order, and no
\* other file was touched except the one being written
C18_ExportStops ==
    SplitFailed =>
        /\ FailedGroup <= Len(parts[1].dict)
        /\ \A j \in 1..Len(log) : log[j].path = GroupPath(1, j)
        /\ \A path \in DOMAIN fs \ (LogPaths \cup {GroupPath(1, FailedGroup)}) :
               path \in DOMAIN StaleFs /\ fs[path] = StaleFs[path]

\* the groups up to and including the failing one have files of their own
OwnFiles ==
    \A i, j \in 1..FailedGroup :
        (i # j /\ j <= Len(parts[1].dict)) => GroupPath(1, i) # GroupPath(1, j)

\* the files of groups 1..k-1 hold what was written to them, when no two of
\* the groups share a file name
C18_EarlierFilesKept ==
    (SplitFailed /\ OwnFiles) =>
        \A j \in 1..Len(log) :
            /\ GroupPath(1, j) \in DOMAIN fs
            /\ fs[GroupPath(1, j)] = JsonContent(parts[1].dict[j].v)

\* the error carries the file of the failing group
C18_ErrorNamesGroup ==
    SplitFailed => last.error_file = GroupPath(1, FailedGroup)

C18_WriteErrorOfGroup ==
    SplitFailed =>
        /\ FailedGroup <= Len(parts[1].dict)
        /\ \A j \in 1..Len(log) :
               /\ log[j].path = GroupPath(1, j)
               /\ GroupPath(1, j) \in DOMAIN fs
               /\ fs[GroupPath(1, j)] = JsonContent(parts[1].dict[j].v)
        /\ \A path \in DOMAIN fs \ (LogPaths \cup {GroupPath(1, FailedGroup)}) :
               path \in DOMAIN StaleFs /\ fs[path] = StaleFs[path]
        /\ last.error_file = GroupPath(1, FailedGroup)

(***************************************************************************)
(* C19.  A malformed record (a null or missing property bag, a field of an *)
(* unexpected type) never aborts an export or a report: every grouping,    *)
(* narrative, Q&A, chunk and report operation on a loaded dataset ends     *)
(* without an error raised by a record.                                    *)
(***************************************************************************)
\* the errors a record can raise: a method called on a null bag, a
\* comparison of values of different types
RecordError == last.raised \in {"AttributeError", "TypeError"}

\* an operation after a load that has produced a dataset
OnDataset ==
    /\ last.op \notin LoadOps \cup {"rag_load_data", "init"}
    /\ script = "rag" \/ IsFeatureCollection(input)

C19_MalformedRecordNeverAborts == OnDataset => ~RecordError

\* the same, for datasets whose records have a property bag or none at all
\* (not a null one) and addresses of one type
C19_MissingBagNeverAborts ==
    (OnDataset /\ FirstNullBag(features) = 0 /\ Sortable(features)) => ~RecordError

(***************************************************************************)
(* C20.  Once loaded, the dataset is never mutated: whatever operations    *)
(* have run, the list of records and every record in it are what load_data *)
(* produced, in the same order.                                            *)
(***************************************************************************)
C20_DatasetNeverMutated == Dataset = loaded

\* an address-range split has written the records in another order than the
\* dataset's, which still is as loaded
C20_Witness ==
    /\ last.op = "split_by_address_range" /\ Completed
    /\ \E i \in 1..Len(features) : "geometry" \in DOMAIN features[i]
    /\ Len(features) >= 2
    /\ Len(log) = 1
    /\ log[1].content.features # features
    /\ IsPermutation(log[1].content.features, features)
    /\ features = loaded /\ loaded = input.features

(***************************************************************************)
(* C21.  basic_statistics never raises on small samples: with exactly one  *)
(* record of positive total value the standard deviation is 0; with none,  *)
(* mean, median, minimum, maximum and standard deviation of the values are *)
(* 0; with no valid year the four year statistics are 0.                   *)
(***************************************************************************)
\* the dict the last operation built under this name
HasPart(name) == \E p \in 1..Len(parts) : parts[p].name = name
Part(name) == parts[CHOOSE p \in 1..Len(parts) : parts[p].name = name].dict

\* the analyses of run_complete_analysis have run on the extracted records
Analysed == last.op \in {"generate_report", "run_complete_analysis"} /\ pc # "start"

PositiveCount == Cardinality({i \in 1..Len(property_data) : property_data[i].total_value > 0})

AllZero(statistics) == \A f \in DOMAIN statistics : statistics[f] = NumZero

C21_SmallSamples ==
    (Analysed /\ analyzer_load_ok(input)) =>
        /\ last.raised # "StatisticsError"
        /\ HasPart("stats")
        /\ PositiveCount = 1 => Part("stats").value_statistics.std_value = NumZero
        /\ PositiveCount = 0 => AllZero(Part("stats").value_statistics)
        /\ ValidYears(property_data) = <<>> => AllZero(Part("stats").year_built_statistics)

\* three records, one of them with a positive value and a valid year
C21_Witness ==
    /\ Analysed /\ Completed
    /\ Len(property_data) = 3
    /\ PositiveCount = 1
    /\ Len(ValidYears(property_data)) = 1
    /\ Part("stats").value_statistics.std_value = NumZero
    /\ Part("stats").value_statistics.mean_value # NumZero
    /\ Part("stats").value_statistics.mean_value = Part("stats").value_statistics.max_value
    /\ fs[Path(<<>>, N_analysis_report)].summary.stats = Part("stats")

(***************************************************************************)
(* C22.  value_analysis counts every record in exactly one of the seven    *)
(* value ranges, whatever total_value the extraction has produced: no      *)
(* record is counted twice and none is left out.                           *)
(***************************************************************************)
\* the ranges in which the record's value is counted
RangesOf(p) == {r \in 1..Len(ValueRanges) : InRange(ValueRanges[r], p.total_value)}

RECURSIVE SumCounts(_)
SumCounts(dist) == IF dist = <<>> THEN 0 ELSE dist[1].v + SumCounts(Tail(dist))

C22_OneRangePerRecord ==
    (Analysed /\ HasPart("value")) =>
        /\ Len(Part("value").value_distribution) = 7
        /\ \A i \in 1..Len(property_data) : Cardinality(RangesOf(property_data[i])) = 1
        /\ SumCounts(Part("value").value_distribution) = Len(property_data)

\* the same, for the datasets without a negative total value
C22_NonNegativeValues ==
    (/\ Analysed /\ HasPart("value")
     /\ \A i \in 1..Len(property_data) : property_data[i].total_value >= 0) =>
        /\ \A i \in 1..Len(property_data) : Cardinality(RangesOf(property_data[i])) = 1
        /\ SumCounts(Part("value").value_distribution) = Len(property_data)

\* no record is counted in two ranges
C22_NeverTwoRanges ==
    \A i \in 1..Len(property_data) : Cardinality(RangesOf(property_data[i])) <= 1

(***************************************************************************)
(* C23.  Every "top N" list of the report (owners, zoning types by count,  *)
(* zoning types and neighborhoods by average value) holds the N entries    *)
(* with the largest ranking value, in descending order of that value.      *)
(***************************************************************************)
\* the report a completed run has written
Reported == Analysed /\ Completed /\ Path(<<>>, N_analysis_report) \in DOMAIN fs
Report == fs[Path(<<>>, N_analysis_report)].summary

Descending(list) == \A j \in 1..(Len(list) - 1) : ~NumLess(list[j].v, list[j + 1].v)

Least(a, b) == IF a < b THEN a ELSE b

KeysOf(field) == {property_data[i][field] : i \in 1..Len(property_data)}
ValuedKeysOf(field) ==
    {property_data[i][field] : i \in {x \in 1..Len(property_data) : property_data[x].total_value > 0}}

CountOf(field, k) == Cardinality({i \in 1..Len(property_data) : property_data[i][field] = k})

\* a list of keys ranked by their number of records: the ReportTop most
\* frequent (all of them when there are fewer), most frequent first
TopByCount(list, field) ==
    /\ Len(list) = Least(ReportTop, Cardinality(KeysOf(field)))
    /\ \A j \in 1..Len(list) : list[j].v = Num(CountOf(field, list[j].k), 1)
    /\ \A j, j2 \in 1..Len(list) : j # j2 => list[j].k # list[j2].k
    /\ \A k \in KeysOf(field) :
           (\A j \in 1..Len(list) : list[j].k # k)
               => \A j \in 1..Len(list) : list[j].v.num >= CountOf(field, k)
    /\ Descending(list)

\* a list of keys ranked by the mean value of their valued records
TopByMean(list, field) ==
    /\ Len(list) = Least(ReportTop, Cardinality(ValuedKeysOf(field)))
    /\ \A j \in 1..Len(list) : list[j].k \in ValuedKeysOf(field)
    /\ \A j, j2 \in 1..Len(list) : j # j2 => list[j].k # list[j2].k
    /\ Descending(list)

C23_TopNViews ==
    Reported =>
        /\ TopByCount(Report.top_owners, "owner")
        /\ TopByCount(Report.top_zoning_by_count, "zoning")
        /\ TopByMean(Report.top_zoning_by_value, "zoning")
        /\ TopByMean(Report.top_neighborhoods_by_value, "neighborhood")

\* the three lists that are sorted before they are cut
C23_SortedViews ==
    Reported =>
        /\ TopByCount(Report.top_owners, "owner")
        /\ TopByMean(Report.top_zoning_by_value, "zoning")
        /\ TopByMean(Report.top_neighborhoods_by_value, "neighborhood")

(***************************************************************************)
(* C28.  The counts of the seven value ranges sum to properties_with_values*)
(* (the records with total_value > 0), the denominator of their            *)
(* percentages, so that the percentages of the report sum to 100.          *)
(***************************************************************************)
NumAdd(a, b) == Num(a.num * b.den + b.num * a.den, a.den * b.den)

RECURSIVE SumPercentages(_)
SumPercentages(dist) ==
    IF dist = <<>> THEN NumZero ELSE NumAdd(dist[1].percentage, SumPercentages(Tail(dist)))

C28_RangesCoverValued ==
    Reported =>
        /\ Report.stats.properties_with_values = PositiveCount
        /\ SumCounts(Report.value_distribution) = Report.stats.properties_with_values
        /\ Report.stats.properties_with_values > 0
               => SumPercentages(Report.value_distribution) = Num(100, 1)

\* what the counts do sum to: the records with total_value >= 0
C28_RangesCoverNonNegative ==
    Reported =>
        SumCounts(Report.value_distribution)
            = Cardinality({i \in 1..Len(property_data) : property_data[i].total_value >= 0})

(***************************************************************************)
(* C29.  For every chunk size, the chunk file the search index names for   *)
(* property i is the story chunk file that contains property i.            *)
(***************************************************************************)
Indexed == script = "rag" /\ last.op = "create_search_index" /\ Completed
SearchIndex == fs[Path(output_dir, N_search_index)]

StoryChunkFile(k) == Path(output_dir, FileName(P_rag_chunk, Pad3(k), E_txt))
\* the number of properties in the story chunk files 1 .. k
RECURSIVE PropertiesUpTo(_)
PropertiesUpTo(k) ==
    IF k = 0 \/ StoryChunkFile(k) \notin DOMAIN fs THEN 0
    ELSE Len(fs[StoryChunkFile(k)].features) + PropertiesUpTo(k - 1)

\* the number of the story chunk file in which property number i is written
ChunkOf(i) ==
    CHOOSE k \in 1..Len(properties) : PropertiesUpTo(k - 1) < i /\ i <= PropertiesUpTo(k)

C29_IndexNamesTheChunkFile ==
    Indexed =>
        /\ Len(SearchIndex.rows) = Len(properties)
        /\ \A i \in 1..Len(properties) :
               /\ SearchIndex.rows[i][2] = NatStr(i)
               /\ fs[StoryChunkFile(ChunkOf(i))].features[i - PropertiesUpTo(ChunkOf(i) - 1)]
                      = properties[i]
               /\ SearchIndex.rows[i][1] = StoryChunkFile(ChunkOf(i)).name

\* the index is right when one story chunk file holds every property
C29_IndexOfOneChunk ==
    (Indexed /\ properties # <<>> /\ PropertiesUpTo(1) = Len(properties)) =>
        \A i \in 1..Len(properties) : SearchIndex.rows[i][1] = StoryChunkFile(1).name

(***************************************************************************)
(* C30.  After any sequence of load_data, extract_property_data and        *)
(* run_complete_analysis calls on one analyzer object, property_data holds *)
(* exactly one entry per loaded feature, in feature order: a repeated      *)
(* extraction or analysis run accumulates no duplicate entries.            *)
(***************************************************************************)
Extracted ==
    /\ script = "analyzer" /\ pc = "object" /\ Completed
    /\ last.op \in {"extract_property_data", "run_complete_analysis"}

C30_OneEntryPerFeature ==
    Extracted =>
        /\ Len(property_data) = Len(features)
        /\ \A i \in 1..Len(features) : property_data[i] = PropInfo(features[i])

\* what an extraction does guarantee: the entries it appended, the last
\* len(features) of the list, are those of the features, in feature order
C30_LastEntriesOfFeatures ==
    Extracted =>
        /\ Len(property_data) >= Len(features)
        /\ \A i \in 1..Len(features) :
               property_data[Len(property_data) - Len(features) + i] = PropInfo(features[i])

(***************************************************************************)
(* C25.  Whenever run_all_splits or export_all_splits_to_csv returns       *)
(* normally, output_dir has the value it had when the operation was        *)
(* called, so an operation called afterwards writes to that directory.     *)
(***************************************************************************)
RedirectingOps == {"run_all_splits", "export_all_splits_to_csv"}
PlainOps == {"split_by_owner", "create_summary_report", "generate_property_stories"}

\* this step is a call of one of the operations ops by the caller
CallOf(ops) == calls' = calls + 1 /\ last'.op \in ops

C25_RedirectIsTemporary ==
    [][/\ (CallOf(RedirectingOps) /\ last'.raised = "none") => output_dir' = output_dir
       /\ (CallOf(PlainOps) /\ last.op \in RedirectingOps /\ last.raised = "none") =>
              \A j \in 1..Len(log') : log'[j].path.dir = output_dir]_vars

\* a CSV export has run to its end, and the stories called after it are
\* written to the original directory
C25_Witness ==
    /\ pc = "object" /\ last.op = "generate_property_stories" /\ Completed
    /\ features = <<Feature1, Feature2>>
    /\ output_dir = OriginalDir
    /\ Path(<<"split_output", "csv_exports">>, N_all_properties) \in DOMAIN fs
    /\ fs[Path(<<"split_output", "csv_exports">>, N_all_properties)].kind = "csv"
    /\ LogPaths = {Path(OriginalDir, N_property_stories)}

(***************************************************************************)
(* C26.  If a write raises while run_all_splits or export_all_splits_to_csv*)
(* has output_dir redirected, the exception leaves the operation with      *)
(* output_dir still at the subdirectory in use, and the operation called   *)
(* next on the object writes into that subdirectory.                       *)
(***************************************************************************)
IsUnder(dir, sub) == Len(sub) >= Len(dir) /\ SubSeq(sub, 1, Len(dir)) = dir

C26_NoRestoreOnError ==
    [][/\ (CallOf(RedirectingOps) /\ last'.raised = "OSError") => output_dir' = last'.at.dir
       /\ (CallOf(RedirectingOps \cup PlainOps) /\ last.op \in RedirectingOps
              /\ last.raised = "OSError") =>
              /\ \A j \in 1..Len(log') : IsUnder(last.at.dir, log'[j].path.dir)
              /\ last'.op \in PlainOps =>
                     \A j \in 1..Len(log') : log'[j].path.dir = last.at.dir]_vars

\* the first file of a full run could not be opened in by_owner; the stories
\* called next are written into by_owner
C26_Witness ==
    /\ pc = "object" /\ last.op = "generate_property_stories" /\ Completed
    /\ features = <<Feature1, Feature2>>
    /\ output_dir = <<"split_output", "by_owner">>
    /\ LogPaths = {Path(<<"split_output", "by_owner">>, N_property_stories)}
    /\ Path(OriginalDir, N_property_stories) \notin DOMAIN fs

\* the CSV export of a loaded object failed in csv_exports; the full run
\* called next builds its whole tree inside csv_exports
C26_WitnessOfCsvExport ==
    /\ pc = "object" /\ last.op = "run_all_splits" /\ Completed
    /\ features # <<>>
    /\ output_dir = <<"split_output", "csv_exports">>
    /\ Path(<<"split_output", "csv_exports", "csv_exports">>, N_all_properties) \in LogPaths

(***************************************************************************)
(* C27.  In the summary report, for each of the six dimensions the unique  *)
(* count equals the number of keys of the dimension's distribution, and    *)
(* the counts of the distribution sum to total_features, the number of     *)
(* loaded records.                                                         *)
(***************************************************************************)
Summarised ==
    /\ script = "splitter" /\ pc = "object" /\ Completed
    /\ last.op \in {"create_summary_report", "run_all_splits"}
SummaryReport == fs[Path(output_dir, N_summary_report)].summary

\* the distribution a reader of the report gets: one key per member name,
\* with the count of the last member of that name
NamesOf(members) == {members[j].k : j \in 1..Len(members)}
LastOf(members, name) ==
    members[CHOOSE j \in 1..Len(members) :
                /\ members[j].k = name
                /\ \A j2 \in (j + 1)..Len(members) : members[j2].k # name].v

RECURSIVE SumOver(_, _)
SumOver(members, names) ==
    IF names = {} THEN 0
    ELSE LET name == CHOOSE name \in names : TRUE
         IN  LastOf(members, name) + SumOver(members, names \ {name})

C27_SummaryAgrees ==
    Summarised =>
        /\ SummaryReport.total_features = Len(loaded)
        /\ \A d \in 1..Len(SummaryFields) :
               LET members == SummaryReport.distribution[d]
               IN  /\ SummaryReport.unique[d] = Cardinality(NamesOf(members))
                   /\ SumOver(members, NamesOf(members)) = SummaryReport.total_features

\* what does hold: the members as they are written, one per key of the dict
\* in memory, are as many as the unique count and their counts sum to
\* total_features
C27_MembersAsWritten ==
    Summarised =>
        /\ SummaryReport.total_features = Len(loaded)
        /\ \A d \in 1..Len(SummaryFields) :
               LET members == SummaryReport.distribution[d]
               IN  /\ SummaryReport.unique[d] = Len(members)
                   /\ SumCounts(members) = SummaryReport.total_features

(***************************************************************************)
(* C24.  In a full run (run_all_splits) every group file of a grouping     *)
(* dimension is written inside that dimension's own subdirectory and in no *)
(* other directory; the summary document, the narrative stream and the     *)
(* Q&A stream are written in the root output directory; and a flat tabular *)
(* export of the entire dataset is produced.                               *)
(***************************************************************************)
FullRun == script = "splitter" /\ pc = "object" /\ last.op = "run_all_splits" /\ Completed

\* the subdirectory name of the run's output directory
Sub(name) == Append(output_dir, name)

\* the directories in which the run has written a file of this name
DirsOf(name) == {log[i].path.dir : i \in {x \in 1..Len(log) : log[x].path.name = name}}

\* the directories in which the run has written a file whose name starts so
DirsOfPrefix(prefix) ==
    {log[i].path.dir : i \in {x \in 1..Len(log) : HasPrefix(log[x].path.name, prefix \o <<"_">>)}}

\* the grouping dimension of a key-grouping dict
DimensionOf ==
    [owner |-> "owner", zoning |-> "zoning", route |-> "route", municipality |-> "municipality",
     neighborhood |-> "neighborhood", year_built |-> "year_built",
     csv_owner |-> "owner", csv_zoning |-> "zoning", csv_route |-> "route",
     csv_municipality |-> "municipality", csv_neighborhood |-> "neighborhood",
     csv_year_built |-> "year_built"]

\* chunk and address-range files are in their subdirectories, the three
\* documents in the root
ChunksAndDocumentsInPlace ==
    /\ DirsOfPrefix(P_chunk) \subseteq {Sub("by_chunks")}
    /\ DirsOfPrefix(P_address_range) \subseteq {Sub("by_address")}
    /\ features # <<>> => /\ DirsOfPrefix(P_chunk) # {}
                          /\ DirsOfPrefix(P_address_range) # {}
    /\ DirsOf(N_summary_report) = {output_dir}
    /\ DirsOf(N_property_stories) = {output_dir}
    /\ DirsOf(N_property_qa_pairs) = {output_dir}

\* the claim as it is stated
C24_OwnSubdirectoryOnly ==
    FullRun =>
        /\ \A p \in KeyDicts : \A j \in 1..Len(parts[p].dict) :
               DirsOf(GroupFileName(p, j)) = {Sub(PartTable[DimensionOf[parts[p].name]].sub)}
        /\ ChunksAndDocumentsInPlace
        /\ DirsOf(N_all_properties) # {}

\* The layout by format: the JSON group files of a dimension are in the
\* dimension's subdirectory only, the CSV group files of all six dimensions
\* in csv_exports only, and the flat export of the whole dataset is in
\* csv_exports when the dataset is not empty and is not written when it is.
C24_LayoutByFormat ==
    FullRun =>
        /\ \A p \in KeyDicts : \A j \in 1..Len(parts[p].dict) :
               DirsOf(GroupFileName(p, j)) = {Sub(PartTable[parts[p].name].sub)}
        /\ {parts[p].name : p \in KeyDicts} = KeyPartNames
        /\ ChunksAndDocumentsInPlace
        /\ features # <<>> =>
               /\ DirsOf(N_all_properties) = {Sub("csv_exports")}
               /\ fs[Path(Sub("csv_exports"), N_all_properties)] = CsvOf(features)
        /\ features = <<>> => DirsOf(N_all_properties) = {}

C24_Witness ==
    /\ FullRun
    /\ features = <<Feature1, Feature2>>
    /\ \E p, q \in KeyDicts :
           /\ parts[p].name = "zoning" /\ parts[q].name = "csv_zoning"
           /\ Len(parts[p].dict) = 2 /\ Len(parts[q].dict) = 2
           /\ Path(Sub("by_zoning"), GroupFileName(p, 2)) \in LogPaths
           /\ Path(Sub("csv_exports"), GroupFileName(q, 2)) \in LogPaths
    /\ Path(Sub("csv_exports"), N_all_properties) \in LogPaths
    /\ Path(output_dir, N_summary_report) \in LogPaths

====
